---------------------------- MODULE Spec2Model ----------------------------
(***************************************************************************)
(* A model of the format-preserving catalog engine of compare_po.py: the   *)
(* entry codec, the document splitter, the entry parser, the block         *)
(* patcher, the canonicalizer, the divergence engine and the               *)
(* reconciliation algorithms (Fill, Compare, Punctuation Auto-Fix).        *)
(*                                                                         *)
(* Text is modelled as TLA+ strings, a character being a string of length  *)
(* one; a line keeps its terminator, a block is a sequence of lines.  The  *)
(* functions of the program are operators computed as the code computes    *)
(* them; every specification draws the inputs of one operation from a      *)
(* bounded set (Init) and applies the operation (its action).              *)
(*                                                                         *)
(* Characters outside ASCII cannot be written in a module; each is stood   *)
(* for by an ASCII character that the program treats in no special way:    *)
(*    "^"  U+2026 horizontal ellipsis      "+"  U+201E low double quote    *)
(*    "="  U+201D right double quote       "|"  U+2013 en dash             *)
(*    ":"  U+2014 em dash                  "("  U+FF1C fullwidth <         *)
(*    ")"  U+FF1E fullwidth >              "/"  U+FF06 fullwidth &         *)
(* Only the tag pattern of the lint checks gives two of them a role: there *)
(* "/" is the slash of a closing tag and ":" a character of a tag name,    *)
(* and the texts handed to the lint checks have no fullwidth form and no   *)
(* em dash.                                                                *)
(***************************************************************************)
EXTENDS Integers, Sequences, FiniteSets, TLC

VARIABLES pc,   \* "call" before the operation has run, "done" after
          arg,  \* the arguments of the operation (objects passed by reference
                \* are updated here when the operation mutates them)
          ret   \* what the operation returned

vars == <<pc, arg, ret>>

NoRet == "none"

----------------------------------------------------------------------------
(* Bounds of the model. *)

MaxStrLen == 3      \* characters of a codec input
MaxLines == 3       \* lines of a file or of a block drawn freely
MaxBlockLines == 4  \* lines of a block handed to replace_msgstr_in_block
MaxFrags == 3       \* fragments a source key is put together from
MaxValueFrags == 2  \* fragments each of two compared values is put together from
MaxEntries == 3     \* entries of a document loaded into a map

----------------------------------------------------------------------------
(* Python's str operations. *)

Backslash == "\\"
DQuote == "\""
NL == "\n"
TAB == "\t"
CR == "\r"

Ch(s, i) == SubSeq(s, i, i)
Take(s, n) == SubSeq(s, 1, n)
Drop(s, n) == SubSeq(s, n + 1, Len(s))

MinOf(S) == CHOOSE i \in S : \A j \in S : i <= j
MaxOf(S) == CHOOSE i \in S : \A j \in S : j <= i

\* str.isspace for the characters of the model
IsSpace(c) == c \in {" ", TAB, NL, CR}

startswith(s, p) == Len(s) >= Len(p) /\ Take(s, Len(p)) = p
endswith(s, p) == Len(s) >= Len(p) /\ Drop(s, Len(s) - Len(p)) = p

\* p in s
Contains(s, p) == \E i \in 1..(Len(s) - Len(p) + 1) : SubSeq(s, i, i + Len(p) - 1) = p

\* s.count(p) for a one-character p
CountCh(s, c) == Cardinality({i \in 1..Len(s) : Ch(s, i) = c})

lstrip(s) ==
    LET keep == {i \in 1..Len(s) : ~IsSpace(Ch(s, i))}
    IN  IF keep = {} THEN "" ELSE Drop(s, MinOf(keep) - 1)

rstrip(s) ==
    LET keep == {i \in 1..Len(s) : ~IsSpace(Ch(s, i))}
    IN  IF keep = {} THEN "" ELSE Take(s, MaxOf(keep))

strip(s) == lstrip(rstrip(s))

\* s.replace(old, new), old not empty: leftmost occurrences, not overlapping
RECURSIVE replace(_, _, _)
replace(s, old, new) ==
    IF s = "" THEN ""
    ELSE IF startswith(s, old) THEN new \o replace(Drop(s, Len(old)), old, new)
    ELSE Ch(s, 1) \o replace(Drop(s, 1), old, new)

\* ' '.join(s.split())
RECURSIVE JoinSplit(_)
JoinSplit(s) ==
    LET t == lstrip(s)
        ends == {i \in 1..Len(t) : IsSpace(Ch(t, i))}
    IN  IF t = "" THEN ""
        ELSE IF ends = {} THEN t
        ELSE LET w == Take(t, MinOf(ends) - 1)
                 rest == JoinSplit(Drop(t, MinOf(ends)))
             IN  IF rest = "" THEN w ELSE w \o " " \o rest

\* "".join(f(x) for x in seq)
RECURSIVE JoinAll(_)
JoinAll(seq) == IF seq = <<>> THEN "" ELSE Head(seq) \o JoinAll(Tail(seq))

\* all strings over alphabet A of length at most n
RECURSIVE StringsUpTo(_, _)
StringsUpTo(A, n) ==
    IF n = 0 THEN {""}
    ELSE LET shorter == StringsUpTo(A, n - 1)
         IN  shorter \cup {s \o c : s \in shorter, c \in A}

\* all sequences over S of length at most n
RECURSIVE SeqsUpTo(_, _)
SeqsUpTo(S, n) ==
    IF n = 0 THEN {<<>>}
    ELSE LET shorter == SeqsUpTo(S, n - 1)
         IN  shorter \cup {Append(q, x) : q \in shorter, x \in S}

----------------------------------------------------------------------------
(* Entry Codec: po_escape and _parse_po_string. *)

\* a plausible slip: the quote is escaped before the backslash
po_escape_quote_first(s) ==
    LET a == replace(replace(s, DQuote, Backslash \o DQuote), Backslash, Backslash \o Backslash)
        b == replace(replace(a, CR \o NL, NL), CR, NL)
        c == replace(replace(b, NL, Backslash \o "n"), TAB, Backslash \o "t")
    IN  DQuote \o c \o DQuote

po_escape(s) ==
    LET a == replace(replace(s, Backslash, Backslash \o Backslash), DQuote, Backslash \o DQuote)
        b == replace(replace(a, CR \o NL, NL), CR, NL)
        c == replace(replace(b, NL, Backslash \o "n"), TAB, Backslash \o "t")
    IN  DQuote \o c \o DQuote

\* The escapes of a Python string literal that the characters of the model can
\* spell: \\ \" \n \t \r, and a backslash before a line end, which joins the
\* lines; a backslash before any other character of the model is kept together
\* with that character.
EscapeValue(c) ==
    CASE c = Backslash -> Backslash
      [] c = DQuote -> DQuote
      [] c = "n" -> NL
      [] c = "t" -> TAB
      [] c = "r" -> CR
      [] c \in {NL, CR} -> ""
      [] OTHER -> Backslash \o c

\* the length of the escape whose backslash is at j: a backslash takes the
\* next character with it, and both characters of a CR LF line end
EscapeLen(t, j) ==
    IF j + 2 <= Len(t) /\ Ch(t, j + 1) = CR /\ Ch(t, j + 2) = NL THEN 3 ELSE 2

RECURSIVE LiteralValue(_)
LiteralValue(content) ==
    IF content = "" THEN ""
    ELSE IF Ch(content, 1) = Backslash
         THEN EscapeValue(Ch(content, 2)) \o LiteralValue(Drop(content, EscapeLen(content, 1)))
    ELSE Ch(content, 1) \o LiteralValue(Drop(content, 1))

\* the position of the quote (of the first of the three quotes) that closes the
\* string literal whose body starts at j; 0 when the literal is not closed: a
\* line end without a backslash in a one-quote literal, a backslash with nothing
\* after it
RECURSIVE CloseOf(_, _, _)
CloseOf(t, j, triple) ==
    IF j > Len(t) THEN 0
    ELSE IF Ch(t, j) = Backslash
         THEN IF j + 1 > Len(t) THEN 0
              ELSE CloseOf(t, j + EscapeLen(t, j), triple)
    ELSE IF Ch(t, j) = DQuote
         THEN IF ~triple THEN j
              ELSE IF j + 2 <= Len(t) /\ SubSeq(t, j, j + 2) = DQuote \o DQuote \o DQuote THEN j
              ELSE CloseOf(t, j + 1, triple)
    ELSE IF ~triple /\ Ch(t, j) \in {NL, CR} THEN 0
    ELSE CloseOf(t, j + 1, triple)

LiteralError == [ok |-> FALSE, tuple |-> FALSE, items |-> <<>>]

\* ast.literal_eval(t) for a text t that starts with a quote, over the characters
\* of the model: string literals side by side are one string, a comma makes the
\* value a tuple, blanks are skipped, # starts a comment, a line end ends the
\* expression, any other character outside a literal is an error. items are the finished elements, cur the
\* literal read since the last comma (<<>> if none).
\* whether nothing but blanks, line ends and comments is left from i on: the
\* expression ends at the first line end outside a literal
RECURSIVE OnlyTrailer(_, _, _)
OnlyTrailer(t, i, comment) ==
    IF i > Len(t) THEN TRUE
    ELSE IF Ch(t, i) \in {NL, CR} THEN OnlyTrailer(t, i + 1, FALSE)
    ELSE IF comment \/ Ch(t, i) \in {" ", TAB} THEN OnlyTrailer(t, i + 1, comment)
    ELSE IF Ch(t, i) = "#" THEN OnlyTrailer(t, i + 1, TRUE)
    ELSE FALSE

RECURSIVE LiteralItems(_, _, _, _)
LiteralItems(t, i, items, cur) ==
    IF i > Len(t) \/ Ch(t, i) \in {"#", NL, CR}
    THEN IF OnlyTrailer(t, i, FALSE)
         THEN [ok |-> TRUE, tuple |-> items # <<>>, items |-> items \o cur]
         ELSE LiteralError
    ELSE IF Ch(t, i) \in {" ", TAB} THEN LiteralItems(t, i + 1, items, cur)
    ELSE IF Ch(t, i) = Backslash /\ i < Len(t) /\ Ch(t, i + 1) \in {NL, CR}
         THEN LiteralItems(t, i + 2, items, cur)
    ELSE IF Ch(t, i) = ","
         THEN IF cur = <<>> THEN LiteralError ELSE LiteralItems(t, i + 1, items \o cur, <<>>)
    ELSE IF Ch(t, i) = DQuote
         THEN LET triple == i + 2 <= Len(t) /\ SubSeq(t, i, i + 2) = DQuote \o DQuote \o DQuote
                  open == IF triple THEN i + 3 ELSE i + 1
                  close == CloseOf(t, open, triple)
              IN  IF close = 0 THEN LiteralError
                  ELSE LiteralItems(t, close + (IF triple THEN 3 ELSE 1), items,
                           <<(IF cur = <<>> THEN "" ELSE cur[1])
                               \o LiteralValue(SubSeq(t, open, close - 1))>>)
    ELSE LiteralError

\* ast.literal_eval(f'"{content}"')
literal_eval(content) == LiteralItems(DQuote \o content \o DQuote, 1, <<>>, <<>>)

\* the except branch: four literal substitutions, in this order
FallbackUnescape(content) ==
    replace(replace(replace(replace(content,
        Backslash \o DQuote, DQuote),
        Backslash \o "n", NL),
        Backslash \o "t", TAB),
        Backslash \o Backslash, Backslash)

parse_po_string(line) ==
    LET l == strip(line)
    IN  IF Len(l) >= 2 /\ startswith(l, DQuote) /\ endswith(l, DQuote)
        THEN LET content == SubSeq(l, 2, Len(l) - 1)
                 ev == literal_eval(content)
             IN  IF ~ev.ok THEN FallbackUnescape(content)
                 ELSE IF ev.tuple THEN ev.items
                 ELSE ev.items[1]
        ELSE ""

\* whether _parse_po_string(line) is a str: literal_eval hands back whatever the
\* text evaluates to, and the function returns it unchecked
ReturnsStr(line) ==
    LET l == strip(line)
    IN  (Len(l) >= 2 /\ startswith(l, DQuote) /\ endswith(l, DQuote))
            => \E ev \in {literal_eval(SubSeq(l, 2, Len(l) - 1))} : ev.ok => ~ev.tuple

CodecAlphabet == {Backslash, DQuote, NL, TAB, CR, "n", "t"}

CodecInit ==
    /\ pc = "call"
    /\ arg \in {[s |-> s] : s \in StringsUpTo(CodecAlphabet, MaxStrLen)}
    /\ ret = NoRet

\* encode a value, then decode the fragment
RoundTrip ==
    /\ pc = "call"
    /\ pc' = "done"
    /\ ret' = [line |-> po_escape(arg.s), value |-> parse_po_string(po_escape(arg.s))]
    /\ UNCHANGED arg

CodecNext == RoundTrip

SpecCodec == CodecInit /\ [][CodecNext]_vars

\* C5 as stated: decoding the encoding of any string gives the string back.
C5_RoundTripEveryString == pc = "done" => ret.value = arg.s

\* C5 amended: decoding the encoding of a string without carriage returns gives
\* the string back; a carriage return (alone or before a newline) comes back as
\* a newline.
C5_RoundTripWithoutCR ==
    pc = "done" =>
        /\ ~Contains(arg.s, CR) => ret.value = arg.s
        /\ ret.value = replace(replace(arg.s, CR \o NL, NL), CR, NL)

C5_Witness ==
    /\ pc = "done"
    /\ arg.s = Backslash \o "n" \o DQuote
    /\ ret.line = DQuote \o Backslash \o Backslash \o "n" \o Backslash \o DQuote \o DQuote
    /\ ret.value = arg.s

----------------------------------------------------------------------------
(* Document Splitter: split_file_into_entries. *)

\* ln.lstrip().startswith("msgid ")
IsMsgidLine(ln) == startswith(lstrip(ln), "msgid ")

msgid_indices(lines) == {i \in 1..Len(lines) : IsMsgidLine(lines[i])}

\* the k-th smallest element of a set of numbers
Nth(S, k) == CHOOSE i \in S : Cardinality({j \in S : j < i}) = k - 1

\* a plausible slip: a block ends one line early
split_block_short(lines, k) ==
    LET idx == msgid_indices(lines)
        start == Nth(idx, k)
        end == IF k < Cardinality(idx) THEN Nth(idx, k + 1) ELSE Len(lines) + 1
    IN  SubSeq(lines, start, end - 2)

\* lines[start:end] for the k-th boundary
split_block(lines, k) ==
    LET idx == msgid_indices(lines)
        start == Nth(idx, k)
        end == IF k < Cardinality(idx) THEN Nth(idx, k + 1) ELSE Len(lines) + 1
    IN  SubSeq(lines, start, end - 1)

split_file_into_entries(lines) ==
    LET idx == msgid_indices(lines)
    IN  IF idx = {} THEN [preamble |-> lines, blocks |-> <<>>]
        ELSE [preamble |-> SubSeq(lines, 1, MinOf(idx) - 1),
              blocks |-> [k \in 1..Cardinality(idx) |-> split_block(lines, k)]]

\* out.extend(b) for every block
RECURSIVE Flatten(_)
Flatten(blocks) == IF blocks = <<>> THEN <<>> ELSE Head(blocks) \o Flatten(Tail(blocks))

SplitCorpus ==
    { "msgid \"a\"\n", "  msgid \"b\"\n", "msgid_plural \"c\"\n", "msgid\n",
      "msgstr \"x\"\n", "\"msgid \"\n", "# msgid \"z\"\n", "\n" }

SplitInit ==
    /\ pc = "call"
    /\ arg \in {[lines |-> l] : l \in SeqsUpTo(SplitCorpus, MaxLines)}
    /\ ret = NoRet

Split ==
    /\ pc = "call"
    /\ pc' = "done"
    /\ ret' = split_file_into_entries(arg.lines)
    /\ UNCHANGED arg

SplitNext == Split

SpecSplit == SplitInit /\ [][SplitNext]_vars

\* C1: the preamble followed by the blocks is the input; every block starts at
\* a key declaration and holds no other; without a key declaration the input is
\* the preamble and there is no block.
C1_SplitIsPartition ==
    pc = "done" =>
        /\ ret.preamble \o Flatten(ret.blocks) = arg.lines
        /\ \A k \in 1..Len(ret.blocks) :
              /\ Len(ret.blocks[k]) >= 1
              /\ \A j \in 1..Len(ret.blocks[k]) : IsMsgidLine(ret.blocks[k][j]) <=> j = 1
        /\ \A i \in 1..Len(ret.preamble) : ~IsMsgidLine(ret.preamble[i])
        /\ (\A i \in 1..Len(arg.lines) : ~IsMsgidLine(arg.lines[i]))
              => ret.preamble = arg.lines /\ ret.blocks = <<>>

C1_Witness ==
    /\ pc = "done"
    /\ Len(arg.lines) = 3
    /\ Len(ret.preamble) = 1
    /\ Len(ret.blocks) = 2
    /\ ret.blocks[2] = <<"  msgid \"b\"\n">>

----------------------------------------------------------------------------
(* Entry Parser: parse_entry_block. *)

Digits == {"0", "1", "2", "3", "4", "5", "6", "7", "8", "9"}

DigitValue(c) ==
    CASE c = "0" -> 0 [] c = "1" -> 1 [] c = "2" -> 2 [] c = "3" -> 3 [] c = "4" -> 4
      [] c = "5" -> 5 [] c = "6" -> 6 [] c = "7" -> 7 [] c = "8" -> 8 [] c = "9" -> 9

\* int(s) for a string of digits
RECURSIVE IntOf(_)
IntOf(s) == IF s = "" THEN 0 ELSE 10 * IntOf(Take(s, Len(s) - 1)) + DigitValue(Ch(s, Len(s)))

\* str(n) for n >= 0
RECURSIVE StrOf(_)
StrOf(n) ==
    LET d == CHOOSE c \in Digits : DigitValue(c) = n % 10
    IN  IF n < 10 THEN d ELSE StrOf(n \div 10) \o d

\* the length of the longest prefix of s made of digits
DigitRun(s) ==
    LET stop == {i \in 1..Len(s) : Ch(s, i) \notin Digits}
    IN  IF stop = {} THEN Len(s) ELSE MinOf(stop) - 1

\* re.match(r'msgstr\[(\d+)\]\s*(.*)', s) for a stripped line s that starts
\* with "msgstr[": matched or not, the index, and group 2
PluralMatch(s) ==
    LET after == Drop(s, Len("msgstr["))
        n == DigitRun(after)
        ok == n >= 1 /\ n < Len(after) /\ Ch(after, n + 1) = "]"
    IN  [ok |-> ok,
         index |-> IF ok THEN IntOf(Take(after, n)) ELSE -1,
         rest |-> IF ok THEN lstrip(Drop(after, n + 1)) ELSE ""]

ParserStart == [state |-> "None", curr_plural |-> -1, msgid |-> <<>>, msgstr |-> <<>>,
                plurals |-> <<>>]

\* plurals.setdefault(k, []).append(frag): plurals is kept as the sequence of
\* its (index, fragments) items in insertion order
PluralAppend(plurals, k, frag) ==
    IF \E i \in 1..Len(plurals) : plurals[i].index = k
    THEN [i \in 1..Len(plurals) |->
            IF plurals[i].index = k
            THEN [plurals[i] EXCEPT !.frags = Append(@, frag)]
            ELSE plurals[i]]
    ELSE Append(plurals, [index |-> k, frags |-> <<frag>>])

\* one iteration of the loop over the lines of the block
ParserStep(st, ln) ==
    LET s == strip(ln)
    IN  IF s = "" \/ startswith(s, "#") THEN st
        ELSE IF startswith(s, "msgid ")
             THEN [st EXCEPT !.state = "msgid", !.msgid = Append(@, Drop(s, Len("msgid ")))]
        ELSE IF startswith(s, "msgstr[")
             THEN LET m == PluralMatch(s)
                  IN  IF m.ok
                      THEN [st EXCEPT !.state = "msgstrplural", !.curr_plural = m.index,
                                      !.plurals = PluralAppend(@, m.index, m.rest)]
                      ELSE [st EXCEPT !.state = "msgstrplural", !.curr_plural = -1]
        ELSE IF startswith(s, "msgstr ")
             THEN [st EXCEPT !.state = "msgstr", !.msgstr = Append(@, Drop(s, Len("msgstr ")))]
        ELSE IF startswith(s, DQuote) /\ endswith(s, DQuote)
             THEN IF st.state = "msgid" THEN [st EXCEPT !.msgid = Append(@, s)]
                  ELSE IF st.state = "msgstr" THEN [st EXCEPT !.msgstr = Append(@, s)]
                  ELSE IF st.state = "msgstrplural" /\ st.curr_plural # -1
                       THEN [st EXCEPT !.plurals = PluralAppend(@, st.curr_plural, s)]
                  ELSE st
        ELSE [st EXCEPT !.state = "None", !.curr_plural = -1]

RECURSIVE ParserRun(_, _)
ParserRun(st, block) ==
    IF block = <<>> THEN st ELSE ParserRun(ParserStep(st, Head(block)), Tail(block))

\* "".join(_parse_po_string(l) for l in frags)
DecodeAll(frags) == JoinAll([i \in 1..Len(frags) |-> parse_po_string(frags[i])])

\* "".join(...) ends with a TypeError when one of the items is not a str
JoinRaises(frags) == \E i \in 1..Len(frags) : ~ReturnsStr(frags[i])

\* parse_entry_block(block) ends with that TypeError: it has no handler
parse_entry_block_raises(block) ==
    \E st \in {ParserRun(ParserStart, block)} :
        \/ JoinRaises(st.msgid)
        \/ JoinRaises(st.msgstr)
        \/ \E i \in 1..Len(st.plurals) : JoinRaises(st.plurals[i].frags)

\* the result: full_id, full_str, and full_plurals as the sequence of its
\* (index, value) items in insertion order
parse_entry_block(block) ==
    LET st == ParserRun(ParserStart, block)
    IN  [fid |-> DecodeAll(st.msgid),
         fstr |-> DecodeAll(st.msgstr),
         plurals |-> [i \in 1..Len(st.plurals) |->
                        [index |-> st.plurals[i].index, value |-> DecodeAll(st.plurals[i].frags)]]]

ParseCorpus ==
    { "msgid \"a\"\n", "\"b\"\n", "msgstr \"x\"\n", "msgstr[0] \"p\"\n",
      "msgid_plural \"q\"\n", "# c\n", "\n" }

ParseInit ==
    /\ pc = "call"
    /\ arg \in {[block |-> b] : b \in SeqsUpTo(ParseCorpus, MaxBlockLines)}
    /\ ret = NoRet

\* parse_entry_block(block)
ParseEntryBlock ==
    /\ pc = "call"
    /\ pc' = "done"
    /\ ret' = IF parse_entry_block_raises(arg.block) THEN [exception |-> "TypeError"]
              ELSE parse_entry_block(arg.block)
    /\ UNCHANGED arg

ParseNext == ParseEntryBlock

SpecParse == ParseInit /\ [][ParseNext]_vars

IsBlankOrComment(ln) == strip(ln) = "" \/ startswith(strip(ln), "#")

IsQuotedLine(ln) == startswith(strip(ln), DQuote) /\ endswith(strip(ln), DQuote)

\* the block without its line i
WithoutLine(block, i) == Take(block, i - 1) \o Drop(block, i)

\* C18: a blank line or a comment line changes no field and sets the state to
\* none, so a quoted line directly after it is appended to no field: the block
\* parses as it does without that quoted line.
C18_BlankOrCommentResets ==
    pc = "done" =>
        \A i \in 1..(Len(arg.block) - 1) :
            (IsBlankOrComment(arg.block[i]) /\ IsQuotedLine(arg.block[i + 1])) =>
                /\ parse_entry_block(Take(arg.block, i)) = parse_entry_block(Take(arg.block, i - 1))
                /\ ret = parse_entry_block(WithoutLine(arg.block, i + 1))

----------------------------------------------------------------------------
(* Block Patcher: replace_msgstr_in_block and ensure_fuzzy_flag. *)

None == -1      \* plural_index=None

\* f"msgstr[{plural_index}] " or "msgstr "
TargetOf(plural_index) ==
    IF plural_index # None THEN "msgstr[" \o StrOf(plural_index) \o "] " ELSE "msgstr "

\* ln[:len(ln)-len(s)] for s = ln.lstrip()
IndentOf(ln) == Take(ln, Len(ln) - Len(lstrip(ln)))

StartsQuoted(ln) == startswith(lstrip(ln), DQuote)

\* the index of the first line at or after i that does not start with a quote
SkipQuoted(block, i) ==
    LET stop == {j \in i..Len(block) : ~StartsQuoted(block[j])}
    IN  IF stop = {} THEN Len(block) + 1 ELSE MinOf(stop)

\* a plausible slip: the continuation lines of the replaced declaration are kept
RECURSIVE ReplaceLoop_keep_continuation(_, _, _, _)
ReplaceLoop_keep_continuation(block, i, target, esc) ==
    IF i > Len(block) THEN [out |-> <<>>, replaced |-> FALSE]
    ELSE LET ln == block[i]
         IN  IF startswith(lstrip(ln), target)
             THEN LET r == ReplaceLoop_keep_continuation(block, i + 1, target, esc)
                  IN  [out |-> <<IndentOf(ln) \o target \o esc \o NL>> \o r.out,
                       replaced |-> TRUE]
             ELSE LET r == ReplaceLoop_keep_continuation(block, i + 1, target, esc)
                  IN  [out |-> <<ln>> \o r.out, replaced |-> r.replaced]

\* the first loop: every declaration of the target is rewritten and the quoted
\* lines that follow it are dropped
RECURSIVE ReplaceLoop(_, _, _, _)
ReplaceLoop(block, i, target, esc) ==
    IF i > Len(block) THEN [out |-> <<>>, replaced |-> FALSE]
    ELSE LET ln == block[i]
         IN  IF startswith(lstrip(ln), target)
             THEN LET r == ReplaceLoop(block, SkipQuoted(block, i + 1), target, esc)
                  IN  [out |-> <<IndentOf(ln) \o target \o esc \o NL>> \o r.out,
                       replaced |-> TRUE]
             ELSE LET r == ReplaceLoop(block, i + 1, target, esc)
                  IN  [out |-> <<ln>> \o r.out, replaced |-> r.replaced]

\* the condition of the second loop at line i of out
InsertAnchor(out, i) ==
    LET s == lstrip(out[i])
    IN  \/ startswith(s, "msgid ")
        \/ /\ startswith(s, DQuote)
           /\ i > 1
           /\ \/ startswith(lstrip(out[i - 1]), "msgid ")
              \/ startswith(lstrip(out[i - 1]), DQuote)

\* the second loop (the declaration was not found): the new line is added after
\* every anchor and the quoted lines that follow it; the loop does not stop at
\* the first
RECURSIVE InsertLoop(_, _, _)
InsertLoop(out, i, line_to_add) ==
    IF i > Len(out) THEN [res |-> <<>>, inserted |-> FALSE]
    ELSE IF InsertAnchor(out, i)
         THEN LET j == SkipQuoted(out, i + 1)
                  r == InsertLoop(out, j, line_to_add)
              IN  [res |-> SubSeq(out, i, j - 1) \o <<line_to_add>> \o r.res,
                   inserted |-> TRUE]
    ELSE LET r == InsertLoop(out, i + 1, line_to_add)
         IN  [res |-> <<out[i]>> \o r.res, inserted |-> r.inserted]

\* a plausible slip: without an anchor the new line is not appended
replace_msgstr_in_block_no_append(block, new_msgstr, plural_index) ==
    LET target == TargetOf(plural_index)
        esc == po_escape(new_msgstr)
        first == ReplaceLoop(block, 1, target, esc)
        line_to_add == target \o esc \o NL
        second == InsertLoop(first.out, 1, line_to_add)
    IN  IF first.replaced THEN first.out
        ELSE IF second.inserted THEN second.res
        ELSE first.out

replace_msgstr_in_block(block, new_msgstr, plural_index) ==
    LET target == TargetOf(plural_index)
        esc == po_escape(new_msgstr)
        first == ReplaceLoop(block, 1, target, esc)
        line_to_add == target \o esc \o NL
        second == InsertLoop(first.out, 1, line_to_add)
    IN  IF first.replaced THEN first.out
        ELSE IF second.inserted THEN second.res
        ELSE Append(first.out, line_to_add)

\* ls.split(',')
RECURSIVE SplitComma(_)
SplitComma(s) ==
    LET at == {i \in 1..Len(s) : Ch(s, i) = ","}
    IN  IF at = {} THEN <<s>>
        ELSE <<Take(s, MinOf(at) - 1)>> \o SplitComma(Drop(s, MinOf(at)))

\* "fuzzy" in ls.split(',')
HasFuzzyItem(ls) == \E i \in 1..Len(SplitComma(ls)) : SplitComma(ls)[i] = "fuzzy"

\* a plausible slip: the scan does not stop at the first line of code
RECURSIVE FlagScan_whole_block(_, _, _)
FlagScan_whole_block(block, i, flags_idx) ==
    IF i > Len(block) THEN [fuzzy_found |-> FALSE, flags_idx |-> flags_idx]
    ELSE LET ls == lstrip(block[i])
         IN  IF startswith(ls, "#,")
             THEN IF HasFuzzyItem(ls) THEN [fuzzy_found |-> TRUE, flags_idx |-> i]
                  ELSE FlagScan_whole_block(block, i + 1, i)
             ELSE FlagScan_whole_block(block, i + 1, flags_idx)

\* the scan over the leading comment lines: the last flags line seen and
\* whether it carries the marker
RECURSIVE FlagScan(_, _, _)
FlagScan(block, i, flags_idx) ==
    IF i > Len(block) THEN [fuzzy_found |-> FALSE, flags_idx |-> flags_idx]
    ELSE LET ls == lstrip(block[i])
         IN  IF ~startswith(ls, "#") THEN [fuzzy_found |-> FALSE, flags_idx |-> flags_idx]
             ELSE IF startswith(ls, "#,")
                  THEN IF HasFuzzyItem(ls) THEN [fuzzy_found |-> TRUE, flags_idx |-> i]
                       ELSE FlagScan(block, i + 1, i)
             ELSE FlagScan(block, i + 1, flags_idx)

\* a plausible slip: the indentation of the flags line is lost
ensure_fuzzy_flag_no_indent(block) ==
    LET scan == FlagScan(block, 1, 0)
    IN  IF scan.fuzzy_found THEN block
        ELSE IF scan.flags_idx # 0
             THEN LET ln == block[scan.flags_idx]
                      exist == strip(Drop(lstrip(ln), 2))
                  IN  [block EXCEPT ![scan.flags_idx] =
                          IF exist # "" THEN "#, fuzzy, " \o exist \o NL
                          ELSE "#, fuzzy" \o NL]
        ELSE LET indent == IF block # <<>> THEN IndentOf(block[1]) ELSE ""
             IN  <<indent \o "#, fuzzy" \o NL>> \o block

\* the value of the list after the call (the list is changed in place and
\* returned)
ensure_fuzzy_flag(block) ==
    LET scan == FlagScan(block, 1, 0)
    IN  IF scan.fuzzy_found THEN block
        ELSE IF scan.flags_idx # 0
             THEN LET ln == block[scan.flags_idx]
                      exist == strip(Drop(lstrip(ln), 2))
                  IN  [block EXCEPT ![scan.flags_idx] =
                          IF exist # "" THEN IndentOf(ln) \o "#, fuzzy, " \o exist \o NL
                          ELSE IndentOf(ln) \o "#, fuzzy" \o NL]
        ELSE LET indent == IF block # <<>> THEN IndentOf(block[1]) ELSE ""
             IN  <<indent \o "#, fuzzy" \o NL>> \o block

PatchCorpus ==
    { "msgid \"a\"\n", "\"c\"\n", "  msgstr \"x\"\n", "msgstr[0] \"p\"\n",
      "msgstr[1] \"q\"\n", "msgid_plural \"b\"\n", "# c\n" }

PatchInit ==
    /\ pc = "call"
    /\ arg \in {[block |-> b, new_msgstr |-> "v\n", plural_index |-> t] :
                    b \in SeqsUpTo(PatchCorpus, MaxBlockLines), t \in {None, 0, 1}}
    /\ ret = NoRet

Replace ==
    /\ pc = "call"
    /\ pc' = "done"
    /\ ret' = replace_msgstr_in_block(arg.block, arg.new_msgstr, arg.plural_index)
    /\ UNCHANGED arg

PatchNext == Replace

SpecPatch == PatchInit /\ [][PatchNext]_vars

IsTargetLine(ln, t) == startswith(lstrip(ln), TargetOf(t))

\* the lines of a block outside the declarations of field t and the quoted
\* lines directly after them
RECURSIVE OtherLines(_, _, _)
OtherLines(block, i, t) ==
    IF i > Len(block) THEN <<>>
    ELSE IF IsTargetLine(block[i], t) THEN OtherLines(block, SkipQuoted(block, i + 1), t)
    ELSE <<block[i]>> \o OtherLines(block, i + 1, t)

\* the block with every declaration of field t, together with the quoted lines
\* directly after it, replaced by one given line
RECURSIVE Collapsed(_, _, _, _)
Collapsed(block, i, t, one) ==
    IF i > Len(block) THEN <<>>
    ELSE IF IsTargetLine(block[i], t)
         THEN <<IndentOf(block[i]) \o one>> \o Collapsed(block, SkipQuoted(block, i + 1), t, one)
    ELSE <<block[i]>> \o Collapsed(block, i + 1, t, one)

\* C2: the lines outside the declaration of the target field and its quoted
\* continuation lines are in the result, unchanged and in the same order; where
\* the declaration exists the result is the block with each declaration and its
\* continuation replaced by the one new line; every declaration of the field in
\* the result carries the new value.
C2_PatchLocality ==
    pc = "done" =>
        LET t == arg.plural_index
            new == TargetOf(t) \o po_escape(arg.new_msgstr) \o NL
        IN  /\ OtherLines(ret, 1, t) = OtherLines(arg.block, 1, t)
            /\ (\E i \in 1..Len(arg.block) : IsTargetLine(arg.block[i], t))
                  => ret = Collapsed(arg.block, 1, t, new)
            /\ \A i \in 1..Len(ret) : IsTargetLine(ret[i], t) => lstrip(ret[i]) = new

C2_Witness ==
    /\ pc = "done"
    /\ arg.plural_index = None
    /\ arg.block = <<"msgid \"a\"\n", "  msgstr \"x\"\n", "\"c\"\n", "# c\n">>
    /\ ret = <<"msgid \"a\"\n", "  msgstr \"v\\n\"\n", "# c\n">>

\* C19: for a block with one key declaration and no declaration of the target
\* field, the result is the block with one line more, the new declaration,
\* right after the key declaration and the quoted lines that follow it.
C19_InsertsOneLine ==
    pc = "done" =>
        LET t == arg.plural_index
            keys == {i \in 1..Len(arg.block) : startswith(lstrip(arg.block[i]), "msgid ")}
            at == SkipQuoted(arg.block, MinOf(keys) + 1)
        IN  (Cardinality(keys) = 1 /\ \A i \in 1..Len(arg.block) : ~IsTargetLine(arg.block[i], t)) =>
                /\ Len(ret) = Len(arg.block) + 1
                /\ ret = Take(arg.block, at - 1)
                            \o <<TargetOf(t) \o po_escape(arg.new_msgstr) \o NL>>
                            \o Drop(arg.block, at - 1)

\* the indexes of the plural variants of a parsed entry, and the variant of
\* index k
PluralIndexes(e) == {e.plurals[i].index : i \in 1..Len(e.plurals)}

PluralOf(e, k) == e.plurals[CHOOSE i \in 1..Len(e.plurals) : e.plurals[i].index = k].value

\* the block starts with its one key declaration, declares the simple value
\* and each plural variant at most once, and has no comment line
WellFormedBlock(block) ==
    /\ msgid_indices(block) = {1}
    /\ \A t \in {None, 0, 1} : Cardinality({i \in 1..Len(block) : IsTargetLine(block[i], t)}) <= 1
    /\ \A i \in 1..Len(block) : ~startswith(lstrip(block[i]), "#")

\* C28: for a well-formed block, parse_entry_block reads from the patched
\* block the new value in the target field (the simple value, or the plural
\* variant of the index), and the same source key and the same values in all
\* other fields as from the original block.
C28_PatchThenReparse ==
    (/\ pc = "done"
     /\ WellFormedBlock(arg.block)
     /\ ~parse_entry_block_raises(arg.block)) =>
        LET t == arg.plural_index
            p == parse_entry_block(arg.block)
            q == parse_entry_block(ret)
        IN  /\ ~parse_entry_block_raises(ret)
            /\ q.fid = p.fid
            /\ IF t = None THEN q.fstr = arg.new_msgstr
               ELSE /\ q.fstr = p.fstr
                    /\ t \in PluralIndexes(q)
                    /\ PluralOf(q, t) = arg.new_msgstr
            /\ PluralIndexes(q) \ {t} = PluralIndexes(p) \ {t}
            /\ \A k \in PluralIndexes(p) \ {t} : PluralOf(q, k) = PluralOf(p, k)

FlagCorpus ==
    { "msgid \"a\"\n", "msgstr \"\"\n", "# c\n", "#, fuzzy\n", "#,fuzzy,c-format\n",
      "#, fuzzy, c-format\n", "  #, c-format\n", "#, c-format,no-wrap\n", "#,\n" }

\* block is the list handed to ensure_fuzzy_flag; ret collects the value of
\* every returned list at the time of its return
FlagInit ==
    /\ pc = "call"
    /\ arg \in {[block |-> b, orig |-> b] : b \in SeqsUpTo(FlagCorpus, MaxLines)}
    /\ ret = <<>>

\* ensure_fuzzy_flag(block), applied to the list the previous call returned
EnsureFuzzyFlag ==
    /\ pc \in {"call", "once"}
    /\ pc' = IF pc = "call" THEN "once" ELSE "done"
    /\ ret' = Append(ret, ensure_fuzzy_flag(arg.block))
    /\ arg' = [arg EXCEPT !.block = ensure_fuzzy_flag(arg.block)]

FlagNext == EnsureFuzzyFlag

SpecFlag == FlagInit /\ [][FlagNext]_vars

\* C3: flagging twice gives the same block as flagging once.
C3_FlagIdempotent == pc = "done" => ret[2] = ret[1]

\* C14: after ensure_fuzzy_flag(b) the list b that was passed in holds exactly
\* the lines it held before the call (replace_msgstr_in_block builds its result
\* in a list of its own and leaves arg.block as it was, see Replace).
C14_InputNotMutated == pc = "once" => arg.block = arg.orig

IsFlagsLine(ln) == startswith(lstrip(ln), "#,")

\* the line is a flags line and one of its flags, the blanks around it set
\* aside, is the review marker
CarriesMarker(ln) ==
    /\ IsFlagsLine(ln)
    /\ \E items \in {SplitComma(Drop(lstrip(ln), 2))} :
          \E i \in 1..Len(items) : strip(items[i]) = "fuzzy"

\* the number of comment lines the block starts with
LeadingComments(block) ==
    LET code == {i \in 1..Len(block) : ~startswith(lstrip(block[i]), "#")}
    IN  IF code = {} THEN Len(block) ELSE MinOf(code) - 1

\* the flags lines among the leading comment lines of the block
LeadingFlags(block) == {i \in 1..LeadingComments(block) : IsFlagsLine(block[i])}

\* the flags of a flags line as they are written, the blanks around them set
\* aside
FlagsOf(ln) == strip(Drop(lstrip(ln), 2))

\* the block has a flags line among its leading comment lines and none of them
\* carries the review marker
FlagsWithoutMarker(block) ==
    /\ LeadingFlags(block) # {}
    /\ \A i \in LeadingFlags(block) : ~CarriesMarker(block[i])

\* C21 as stated: on a block with a flags line without the marker the result
\* has as many lines as the input, one flags line differs, it keeps its
\* indentation and its flags in their order, and the marker comes after them.
C21_MarkerAfterFlags ==
    (pc = "once" /\ FlagsWithoutMarker(arg.orig)) =>
        /\ Len(ret[1]) = Len(arg.orig)
        /\ \E k \in LeadingFlags(arg.orig) :
              /\ \A i \in 1..Len(arg.orig) : i # k => ret[1][i] = arg.orig[i]
              /\ ret[1][k] = IndentOf(arg.orig[k]) \o "#, " \o FlagsOf(arg.orig[k])
                                \o ", fuzzy" \o NL

\* C21 amended: the line that changes is the last flags line among the leading
\* comment lines, and the marker comes first, before the flags the line had; a
\* flags line without any flag becomes the line with the marker alone.
C21_MarkerBeforeFlags ==
    (pc = "once" /\ FlagsWithoutMarker(arg.orig)) =>
        /\ Len(ret[1]) = Len(arg.orig)
        /\ \E k \in {MaxOf(LeadingFlags(arg.orig))} :
              /\ \A i \in 1..Len(arg.orig) : i # k => ret[1][i] = arg.orig[i]
              /\ ret[1][k] = IF FlagsOf(arg.orig[k]) = ""
                             THEN IndentOf(arg.orig[k]) \o "#, fuzzy" \o NL
                             ELSE IndentOf(arg.orig[k]) \o "#, fuzzy, "
                                      \o FlagsOf(arg.orig[k]) \o NL

\* an indented flags line with one flag, after a plain comment line
C21_Witness ==
    /\ pc = "once"
    /\ arg.orig = <<"# c\n", "  #, c-format\n", "msgid \"a\"\n">>
    /\ ret[1] = <<"# c\n", "  #, fuzzy, c-format\n", "msgid \"a\"\n">>

\* C22 as stated: on a block with no flags line the result is the block with
\* one new line, the marker alone, after the leading comment lines and
\* directly before the first line that is not a comment.
C22_InsertedAfterComments ==
    (pc = "once" /\ \A i \in 1..Len(arg.orig) : ~IsFlagsLine(arg.orig[i])) =>
        \E lead \in {LeadingComments(arg.orig)} :
            /\ Len(ret[1]) = Len(arg.orig) + 1
            /\ Take(ret[1], lead) = Take(arg.orig, lead)
            /\ lstrip(ret[1][lead + 1]) = "#, fuzzy" \o NL
            /\ Drop(ret[1], lead + 1) = Drop(arg.orig, lead)

\* C22 amended: on a block with no flags line among its leading comment lines
\* the result is the block with one new line in front of all its lines, the
\* leading comment lines included: the marker alone, indented as the first
\* line of the block is.
C22_InsertedFirst ==
    (pc = "once" /\ LeadingFlags(arg.orig) = {}) =>
        ret[1] = <<(IF arg.orig = <<>> THEN "" ELSE IndentOf(arg.orig[1])) \o "#, fuzzy" \o NL>>
                    \o arg.orig

\* a block that starts with a plain comment line and has a flags line only
\* after its key declaration
C22_Witness ==
    /\ pc = "once"
    /\ arg.orig = <<"# c\n", "msgid \"a\"\n", "  #, c-format\n">>
    /\ ret[1] = <<"#, fuzzy\n", "# c\n", "msgid \"a\"\n", "  #, c-format\n">>

\* C20: for a block whose leading comment lines have a flags line that carries
\* the review marker, ensure_fuzzy_flag returns the block as it was.
C20_FlaggedBlockUnchanged ==
    pc = "once" =>
        ((\E i \in 1..LeadingComments(arg.orig) : CarriesMarker(arg.orig[i]))
            => ret[1] = arg.orig)

PatcherCorpus ==
    { "msgid \"a\"\n", "\"c\"\n", "msgstr \"x\"\n", "  msgstr[0] \"p\"\n", "# c\n",
      "#, fuzzy\n", "  #, c-format\n" }

\* every block of the corpus, the empty block and the blocks without a key or
\* without a value declaration among them
PatcherInit ==
    /\ pc = "call"
    /\ arg \in {[block |-> b, new_msgstr |-> "v\n", plural_index |-> t] :
                    b \in SeqsUpTo(PatcherCorpus, MaxBlockLines), t \in {None, 0, 1}}
    /\ ret = NoRet

\* replace_msgstr_in_block(block, new_msgstr, plural_index)
CallReplace ==
    /\ pc = "call"
    /\ pc' = "replaced"
    /\ ret' = replace_msgstr_in_block(arg.block, arg.new_msgstr, arg.plural_index)
    /\ UNCHANGED arg

\* ensure_fuzzy_flag(block): the list is changed in place and returned
CallEnsureFuzzyFlag ==
    /\ pc = "call"
    /\ pc' = "flagged"
    /\ ret' = ensure_fuzzy_flag(arg.block)
    /\ arg' = [arg EXCEPT !.block = ensure_fuzzy_flag(arg.block)]

PatcherNext == CallReplace \/ CallEnsureFuzzyFlag

SpecPatcher == PatcherInit /\ [][PatcherNext]_vars

\* C15: for every block, the empty block and the blocks without key or value
\* declaration included, both operations return a block; the result of
\* replace_msgstr_in_block has a declaration line of the target field that
\* carries the new value, and the result of ensure_fuzzy_flag has a flags line.
C15_PatcherTotal ==
    /\ pc = "replaced" =>
          /\ ret \in Seq(STRING)
          /\ \E i \in 1..Len(ret) :
                lstrip(ret[i]) = TargetOf(arg.plural_index) \o po_escape(arg.new_msgstr) \o NL
    /\ pc = "flagged" =>
          /\ ret \in Seq(STRING)
          /\ \E i \in 1..Len(ret) : IsFlagsLine(ret[i])

C15_Witness ==
    /\ pc = "replaced"
    /\ arg.block = <<>>
    /\ arg.plural_index = 0
    /\ ret = <<"msgstr[0] \"v\\n\"\n">>

----------------------------------------------------------------------------
(* Text Normalization Utilities. *)

\* re.sub(r'<!\[CDATA\[(.*?)\]\]>', r'\1', s, flags=re.DOTALL): the leftmost
\* opening marker that has a closing marker after it, up to the nearest one
RECURSIVE StripCdata(_)
StripCdata(s) ==
    LET open == "<![CDATA["
        close == "]]>"
        closes(i) == {j \in (i + Len(open))..(Len(s) - Len(close) + 1) :
                        SubSeq(s, j, j + Len(close) - 1) = close}
        opens == {i \in 1..(Len(s) - Len(open) + 1) :
                    SubSeq(s, i, i + Len(open) - 1) = open /\ closes(i) # {}}
    IN  IF opens = {} THEN s
        ELSE LET i == MinOf(opens)
                 j == MinOf(closes(i))
             IN  Take(s, i - 1) \o SubSeq(s, i + Len(open), j - 1)
                    \o StripCdata(Drop(s, j + Len(close) - 1))

\* The named character references that the strings of the model can spell
\* (html.entities.html5 restricted to them), each with and without its
\* semicolon where html5 lists both.
EntityNames == {"amp", "amp;", "lt", "lt;", "gt", "gt;"}

EntityValue(name) ==
    CASE name \in {"amp", "amp;"} -> "&"
      [] name \in {"lt", "lt;"} -> "<"
      [] name \in {"gt", "gt;"} -> ">"

\* the characters that end the name of a character reference
EntityStop == {TAB, NL, "\f", " ", "<", "&", "#", ";"}

\* html.unescape's replace_charref for the text s matched after an ampersand:
\* the name itself, else its longest prefix of two or more characters that is
\* a name, else the text unchanged
ReplaceCharref(s) ==
    LET pre == {x \in 2..(Len(s) - 1) : Take(s, x) \in EntityNames}
    IN  IF s \in EntityNames THEN EntityValue(s)
        ELSE IF pre # {} THEN EntityValue(Take(s, MaxOf(pre))) \o Drop(s, MaxOf(pre))
        ELSE "&" \o s

\* html.unescape(s): every '&' followed by a run of name characters and an
\* optional semicolon is replaced by replace_charref of that text
RECURSIVE unescape(_)
unescape(s) ==
    IF s = "" THEN ""
    ELSE IF Ch(s, 1) # "&" THEN Ch(s, 1) \o unescape(Drop(s, 1))
    ELSE LET rest == Drop(s, 1)
             stop == {i \in 1..Len(rest) : Ch(rest, i) \in EntityStop}
             run == IF stop = {} THEN Len(rest) ELSE MinOf(stop) - 1
             n == IF run < Len(rest) /\ Ch(rest, run + 1) = ";" THEN run + 1 ELSE run
         IN  IF run = 0 THEN "&" \o unescape(rest)
             ELSE ReplaceCharref(Take(rest, n)) \o unescape(Drop(rest, n))

\* the length of the match of MARKDOWN_HTML_TAG_RE at the start of s, 0 if none:
\* <[^>]+> | <![CDATA[ | ]]> | ** | __ | * | _ | ~~  (the backquote, the one
\* remaining alternative, cannot be written in a module and is in no string of
\* the model)
MarkupLen(s) ==
    LET gt == {i \in 3..Len(s) : Ch(s, i) = ">"}
    IN  IF startswith(s, "<") /\ Len(s) >= 2 /\ Ch(s, 2) # ">" /\ gt # {} THEN MinOf(gt)
        ELSE IF startswith(s, "<![CDATA[") THEN Len("<![CDATA[")
        ELSE IF startswith(s, "]]>") THEN 3
        ELSE IF startswith(s, "**") \/ startswith(s, "__") \/ startswith(s, "~~") THEN 2
        ELSE IF startswith(s, "*") \/ startswith(s, "_") THEN 1
        ELSE 0

\* MARKDOWN_HTML_TAG_RE.sub('', s)
RECURSIVE StripMarkup(_)
StripMarkup(s) ==
    IF s = "" THEN ""
    ELSE IF MarkupLen(s) > 0 THEN StripMarkup(Drop(s, MarkupLen(s)))
    ELSE Ch(s, 1) \o StripMarkup(Drop(s, 1))

\* unicodedata.normalize("NFKC", c) for the characters of the model: the
\* ellipsis becomes three periods and a fullwidth form its ASCII character
NfkcCh(c) ==
    CASE c = "^" -> "..."
      [] c = "(" -> "<"
      [] c = ")" -> ">"
      [] c = "/" -> "&"
      [] OTHER -> c

RECURSIVE Nfkc(_)
Nfkc(s) == IF s = "" THEN "" ELSE NfkcCh(Ch(s, 1)) \o Nfkc(Drop(s, 1))

strip_formatting_and_normalize_ws(s) ==
    IF s = "" THEN ""
    ELSE strip(JoinSplit(Nfkc(StripMarkup(unescape(StripCdata(s))))))

\* the length of the match of PLACEHOLDER_RE at the start of s, 0 if none:
\* %\d+\$[sd@] | %lld | %[sd@u%]
PlaceholderLen(s) ==
    LET n == DigitRun(Drop(s, 1))
    IN  IF ~startswith(s, "%") THEN 0
        ELSE IF n >= 1 /\ Len(s) >= n + 3 /\ Ch(s, n + 2) = "$" /\ Ch(s, n + 3) \in {"s", "d", "@"}
             THEN n + 3
        ELSE IF startswith(s, "%lld") THEN 4
        ELSE IF Len(s) >= 2 /\ Ch(s, 2) \in {"s", "d", "@", "u", "%"} THEN 2
        ELSE 0

PLACEHOLDER_TOKEN == "{PH}"

\* PLACEHOLDER_RE.sub(token, s)
RECURSIVE SubPlaceholders(_, _)
SubPlaceholders(s, token) ==
    IF s = "" THEN ""
    ELSE IF PlaceholderLen(s) > 0
         THEN token \o SubPlaceholders(Drop(s, PlaceholderLen(s)), token)
    ELSE Ch(s, 1) \o SubPlaceholders(Drop(s, 1), token)

normalize_placeholders(s) == SubPlaceholders(s, PLACEHOLDER_TOKEN)

remove_placeholders(s) == strip(JoinSplit(SubPlaceholders(s, " ")))

\* [m.group(0) for m in PLACEHOLDER_RE.finditer(s)]
RECURSIVE extract_placeholders_list(_)
extract_placeholders_list(s) ==
    IF s = "" THEN <<>>
    ELSE IF PlaceholderLen(s) > 0
         THEN <<Take(s, PlaceholderLen(s))>> \o extract_placeholders_list(Drop(s, PlaceholderLen(s)))
    ELSE extract_placeholders_list(Drop(s, 1))

UpperLetters == "ABCDEFGHIJKLMNOPQRSTUVWXYZ"
LowerLetters == "abcdefghijklmnopqrstuvwxyz"

LowerCh(c) ==
    LET at == {i \in 1..Len(UpperLetters) : Ch(UpperLetters, i) = c}
    IN  IF at = {} THEN c ELSE Ch(LowerLetters, MinOf(at))

\* s.lower()
RECURSIVE lower(_)
lower(s) == IF s = "" THEN "" ELSE LowerCh(Ch(s, 1)) \o lower(Drop(s, 1))

\* re.sub(r'[.\!...\s]+$', '', s): the trailing periods, exclamation marks,
\* ellipsis characters and white space are removed
StripEndPunctuation(s) ==
    LET keep == {i \in 1..Len(s) : ~(Ch(s, i) \in {".", "!", "^"} \/ IsSpace(Ch(s, i)))}
    IN  IF keep = {} THEN "" ELSE Take(s, MaxOf(keep))

normalize_end_punctuation_except_q(s) ==
    LET s_clean == strip_formatting_and_normalize_ws(s)
        ends_with_q == endswith(s_clean, "?")
    IN  IF s = "" \/ s_clean = "" THEN [base |-> "", q |-> FALSE]
        ELSE IF ends_with_q
             THEN [base |-> rstrip(Take(s_clean, Len(s_clean) - 1)), q |-> TRUE]
        ELSE [base |-> StripEndPunctuation(s_clean), q |-> FALSE]

----------------------------------------------------------------------------
(* Canonicalizer: canonicalize_msgid. *)

\* a plausible slip: the interrogative marker is left out
canonicalize_msgid_no_marker(original_msgid) ==
    LET stripped == strip_formatting_and_normalize_ws(original_msgid)
        n == normalize_end_punctuation_except_q(normalize_placeholders(stripped))
    IN  IF original_msgid = "" THEN [key |-> "", display |-> ""]
        ELSE [key |-> JoinSplit(lower(n.base)), display |-> stripped]

canonicalize_msgid(original_msgid) ==
    LET stripped == strip_formatting_and_normalize_ws(original_msgid)
        n == normalize_end_punctuation_except_q(normalize_placeholders(stripped))
        canonical == IF n.q THEN lower(n.base) \o "{Q}" ELSE lower(n.base)
    IN  IF original_msgid = "" THEN [key |-> "", display |-> ""]
        ELSE [key |-> JoinSplit(canonical), display |-> stripped]

\* A source key is a concatenation of these fragments: text, case, white space,
\* end punctuation, markup, entities (whole and in parts), a placeholder, and
\* compatibility characters.
KeyFragments ==
    { "a", "Q", " ", "?", ".", "^", "<", ">", "*", "&amp;", "lt;", "%@", "/", "(" }

RECURSIVE ConcatsUpTo(_, _)
ConcatsUpTo(F, n) ==
    IF n = 0 THEN {""}
    ELSE LET shorter == ConcatsUpTo(F, n - 1)
         IN  shorter \cup {s \o f : s \in shorter, f \in F}

CanonInit ==
    /\ pc = "call"
    /\ arg \in {[s |-> s] : s \in ConcatsUpTo(KeyFragments, MaxFrags)}
    /\ ret = NoRet

\* canonicalize_msgid(s), then canonicalize_msgid of the display form it gave
CanonicalizeDisplay ==
    /\ pc = "call"
    /\ pc' = "done"
    /\ ret' = [first |-> canonicalize_msgid(arg.s),
               second |-> canonicalize_msgid(canonicalize_msgid(arg.s).display)]
    /\ UNCHANGED arg

CanonNext == CanonicalizeDisplay

SpecCanon == CanonInit /\ [][CanonNext]_vars

\* C8: canonicalizing the display form gives the same key and the same display
\* form as canonicalizing the source key.
C8_CanonicalStableOnDisplay == pc = "done" => ret.second = ret.first

\* the non-interrogative endings: period, exclamation mark, ellipsis, white space
PlainEndings == {".", "!", "^", " ", TAB}

\* canonicalize_msgid of the key with a question mark, of the key itself, and of
\* the key with every non-interrogative ending
CanonicalizeVariants ==
    /\ pc = "call"
    /\ pc' = "done"
    /\ ret' = [question |-> canonicalize_msgid(arg.s \o "?").key,
               plain |-> canonicalize_msgid(arg.s).key,
               ended |-> {canonicalize_msgid(arg.s \o e).key : e \in PlainEndings}]
    /\ UNCHANGED arg

QuestionNext == CanonicalizeVariants

SpecQuestion == CanonInit /\ [][QuestionNext]_vars

\* C9: the key of a text followed by a question mark is neither the key of the
\* text nor the key of the text followed by a non-interrogative ending.
C9_QuestionNeverCollides ==
    pc = "done" => ret.question # ret.plain /\ ret.question \notin ret.ended

C9_Witness ==
    /\ pc = "done"
    /\ arg.s = "Q?"
    /\ ret.plain = "q{Q}"
    /\ ret.question = "q?{Q}"
    /\ ret.ended = {"q{Q}", "q?"}

----------------------------------------------------------------------------
(* Divergence Engine: check_divergence. *)

\* \w for the characters of the model
IsWordCh(c) ==
    \/ c \in Digits
    \/ c = "_"
    \/ \E i \in 1..Len(LowerLetters) : Ch(LowerLetters, i) = c \/ Ch(UpperLetters, i) = c

\* the length of the longest prefix of s made of word characters
WordRun(s) ==
    LET stop == {i \in 1..Len(s) : ~IsWordCh(Ch(s, i))}
    IN  IF stop = {} THEN Len(s) ELSE MinOf(stop) - 1

\* the length of the match of WORD_RE = [\w]+(?:-[\w]+)* at the start of s
RECURSIVE WordLen(_)
WordLen(s) ==
    LET n == WordRun(s)
    IN  IF n = 0 THEN 0
        ELSE IF n + 1 < Len(s) /\ Ch(s, n + 1) = "-" /\ IsWordCh(Ch(s, n + 2))
             THEN n + 1 + WordLen(Drop(s, n + 1))
        ELSE n

\* WORD_RE.findall(s)
RECURSIVE FindWords(_)
FindWords(s) ==
    IF s = "" THEN <<>>
    ELSE IF WordLen(s) > 0 THEN <<Take(s, WordLen(s))>> \o FindWords(Drop(s, WordLen(s)))
    ELSE FindWords(Drop(s, 1))

get_word_count_from_display(display) ==
    IF display = "" THEN 0 ELSE Len(FindWords(SubPlaceholders(display, " ")))

placeholder_stripped_equal(s1, s2) ==
    LET n1 == normalize_end_punctuation_except_q(remove_placeholders(s1))
        n2 == normalize_end_punctuation_except_q(remove_placeholders(s2))
    IN  IF Len(extract_placeholders_list(s1)) # Len(extract_placeholders_list(s2)) THEN FALSE
        ELSE IF n1.q # n2.q THEN FALSE
        ELSE lower(n1.base) = lower(n2.base)

get_word_set(translation) ==
    LET words == FindWords(remove_placeholders(strip_formatting_and_normalize_ws(translation)))
    IN  IF translation = "" THEN {} ELSE {lower(words[i]) : i \in 1..Len(words)}

\* a quotient of two small integers as a float: the fraction in lowest terms
RECURSIVE Gcd(_, _)
Gcd(a, b) == IF b = 0 THEN a ELSE Gcd(b, a % b)

Quotient(n, d) == <<n \div Gcd(n, d), d \div Gcd(n, d)>>

One == <<1, 1>>     \* 1.0

SIMILARITY_THRESHOLD == 70      \* 0.70, in hundredths

\* a plausible slip: a similarity of exactly the threshold diverges too
BelowThreshold_or_equal(q) == 100 * q[1] <= SIMILARITY_THRESHOLD * q[2]

\* jaccard < SIMILARITY_THRESHOLD
BelowThreshold(q) == 100 * q[1] < SIMILARITY_THRESHOLD * q[2]

\* a plausible slip: the overlap is measured against the first word set only
check_divergence_first_only(msgstr1, msgstr2) ==
    LET words1 == get_word_set(msgstr1)
        words2 == get_word_set(msgstr2)
        jaccard == IF words1 # {}
                   THEN Quotient(Cardinality(words1 \cap words2), Cardinality(words1))
                   ELSE <<0, 1>>
    IN  IF placeholder_stripped_equal(msgstr1, msgstr2) THEN [diverges |-> FALSE, similarity |-> One]
        ELSE IF words1 = {} /\ words2 = {} THEN [diverges |-> FALSE, similarity |-> One]
        ELSE [diverges |-> BelowThreshold(jaccard), similarity |-> jaccard]

check_divergence(msgstr1, msgstr2) ==
    LET words1 == get_word_set(msgstr1)
        words2 == get_word_set(msgstr2)
        union == words1 \cup words2
        jaccard == IF union # {}
                   THEN Quotient(Cardinality(words1 \cap words2), Cardinality(union))
                   ELSE <<0, 1>>
    IN  IF placeholder_stripped_equal(msgstr1, msgstr2) THEN [diverges |-> FALSE, similarity |-> One]
        ELSE IF words1 = {} /\ words2 = {} THEN [diverges |-> FALSE, similarity |-> One]
        ELSE [diverges |-> BelowThreshold(jaccard), similarity |-> jaccard]

\* A translated value is a concatenation of these fragments.
ValueFragments == {"a", "B", " B", " ", "?", "%@", "-"}

DivergenceInit ==
    /\ pc = "call"
    /\ arg \in {[a |-> a, b |-> b] : a \in ConcatsUpTo(ValueFragments, MaxValueFrags),
                                      b \in ConcatsUpTo(ValueFragments, MaxValueFrags)}
    /\ ret = NoRet

\* check_divergence(a, b) and check_divergence(b, a)
CheckBothWays ==
    /\ pc = "call"
    /\ pc' = "done"
    /\ ret' = [ab |-> check_divergence(arg.a, arg.b), ba |-> check_divergence(arg.b, arg.a)]
    /\ UNCHANGED arg

DivergenceNext == CheckBothWays

SpecDivergence == DivergenceInit /\ [][DivergenceNext]_vars

\* C7: check_divergence gives the same pair for (a, b) and for (b, a).
C7_DivergenceSymmetric == pc = "done" => ret.ab = ret.ba

C7_Witness ==
    /\ pc = "done"
    /\ arg.a = "a B"
    /\ arg.b = "a"
    /\ ret.ab = [diverges |-> TRUE, similarity |-> <<1, 2>>]
    /\ ret.ba = ret.ab

\* The first n words of a text of distinct one-letter words.
RECURSIVE Phrase(_)
Phrase(n) ==
    IF n = 0 THEN ""
    ELSE IF n = 1 THEN Ch(LowerLetters, 1)
    ELSE Phrase(n - 1) \o " " \o Ch(LowerLetters, n)

MaxWords == 10      \* words of a value that is a phrase

\* Two values put together from the fragments, or two phrases, whose word sets
\* overlap in every proportion from 0 to 1 in steps the threshold lies on.
JaccardInit ==
    /\ pc = "call"
    /\ arg \in {[a |-> a, b |-> b] : a \in ConcatsUpTo(ValueFragments, MaxValueFrags),
                                      b \in ConcatsUpTo(ValueFragments, MaxValueFrags)}
               \cup {[a |-> Phrase(m), b |-> Phrase(n)] : m \in 0..MaxWords, n \in 0..MaxWords}
    /\ ret = NoRet

\* check_divergence(a, b)
CheckDivergence ==
    /\ pc = "call"
    /\ pc' = "done"
    /\ ret' = check_divergence(arg.a, arg.b)
    /\ UNCHANGED arg

JaccardNext == CheckDivergence

SpecJaccard == JaccardInit /\ [][JaccardNext]_vars

\* a and b have as many placeholders, both or neither end in a question mark,
\* and their texts without placeholders and end punctuation are equal up to case
StructurallyEqual(a, b) ==
    /\ Len(extract_placeholders_list(a)) = Len(extract_placeholders_list(b))
    /\ normalize_end_punctuation_except_q(remove_placeholders(a)).q
          = normalize_end_punctuation_except_q(remove_placeholders(b)).q
    /\ lower(normalize_end_punctuation_except_q(remove_placeholders(a)).base)
          = lower(normalize_end_punctuation_except_q(remove_placeholders(b)).base)

\* C11: check_divergence gives (not diverging, 1.0) for structurally equal
\* values and for two empty word sets; otherwise the similarity is the Jaccard
\* index of the word sets, between 0 and 1, and the values diverge exactly when
\* the index is below 0.70.
C11_DivergenceIsJaccard ==
    pc = "done" =>
        LET A == get_word_set(arg.a)
            B == get_word_set(arg.b)
            inter == Cardinality(A \cap B)
            union == Cardinality(A \cup B)
        IN  IF StructurallyEqual(arg.a, arg.b) \/ (A = {} /\ B = {})
            THEN ret = [diverges |-> FALSE, similarity |-> One]
            ELSE /\ ret.similarity[2] > 0
                 /\ ret.similarity[1] * union = inter * ret.similarity[2]
                 /\ 0 <= ret.similarity[1] /\ ret.similarity[1] <= ret.similarity[2]
                 /\ ret.diverges <=> (100 * inter < 70 * union)

\* seven of ten words in common: a similarity of exactly 0.70 does not diverge
C11_Witness ==
    /\ pc = "done"
    /\ arg.a = Phrase(7)
    /\ arg.b = Phrase(10)
    /\ ret = [diverges |-> FALSE, similarity |-> <<7, 10>>]

----------------------------------------------------------------------------
(* Document loading and the maps: load_po_simple, build_canonical_map,       *)
(* build_translation_map_for_fill.  A dict is the sequence of its items in   *)
(* insertion order; assigning to a key that is present keeps its place.      *)

DictHas(d, k) == \E i \in 1..Len(d) : d[i].key = k

DictGet(d, k) == d[CHOOSE i \in 1..Len(d) : d[i].key = k].value

\* d[k] = v
DictSet(d, k, v) ==
    IF DictHas(d, k)
    THEN [i \in 1..Len(d) |-> IF d[i].key = k THEN [key |-> k, value |-> v] ELSE d[i]]
    ELSE Append(d, [key |-> k, value |-> v])

LoaderStart == [entries |-> <<>>, current_msgid |-> <<>>, current_msgstr |-> <<>>,
                current_msgstr_0 |-> <<>>, state |-> "None", raised |-> FALSE]

\* process_entry(): the entry read so far is stored under its key, and the
\* accumulators are reset; raised records that a join ended with a TypeError,
\* which leaves the loop
process_entry(st) ==
    LET fid == DecodeAll(st.current_msgid)
        fstr == DecodeAll(st.current_msgstr)
        fstr0 == DecodeAll(st.current_msgstr_0)
        final_str == IF fstr # "" THEN fstr ELSE fstr0
    IN  IF st.raised THEN st
        ELSE IF /\ st.current_msgid # <<>>
                /\ \/ JoinRaises(st.current_msgid)
                   \/ JoinRaises(st.current_msgstr)
                   \/ JoinRaises(st.current_msgstr_0)
             THEN [st EXCEPT !.raised = TRUE]
        ELSE [LoaderStart EXCEPT !.entries =
                IF st.current_msgid # <<>> /\ fid # ""
                THEN DictSet(st.entries, fid, final_str)
                ELSE st.entries]

\* one iteration of the loop over the lines of the file
LoaderStep(st, line) ==
    LET ls == strip(line)
    IN  IF ls = "" \/ startswith(ls, "#") THEN st
        ELSE IF startswith(ls, "msgid ")
             THEN [process_entry(st) EXCEPT !.state = "msgid",
                                            !.current_msgid = <<Drop(ls, Len("msgid "))>>]
        ELSE IF startswith(ls, "msgstr[0]")
             THEN [st EXCEPT !.state = "msgstr0",
                             !.current_msgstr_0 = Append(@, Drop(ls, Len("msgstr[0] ")))]
        ELSE IF startswith(ls, "msgstr ")
             THEN [st EXCEPT !.state = "msgstr",
                             !.current_msgstr = Append(@, Drop(ls, Len("msgstr ")))]
        ELSE IF startswith(ls, "msgstr[") THEN [st EXCEPT !.state = "None"]
        ELSE IF startswith(ls, DQuote) /\ endswith(ls, DQuote)
             THEN IF st.state = "msgid" THEN [st EXCEPT !.current_msgid = Append(@, ls)]
                  ELSE IF st.state = "msgstr" THEN [st EXCEPT !.current_msgstr = Append(@, ls)]
                  ELSE IF st.state = "msgstr0"
                       THEN [st EXCEPT !.current_msgstr_0 = Append(@, ls)]
                  ELSE st
        ELSE process_entry(st)

RECURSIVE LoaderRun(_, _)
LoaderRun(st, lines) ==
    IF lines = <<>> THEN st ELSE LoaderRun(LoaderStep(st, Head(lines)), Tail(lines))

\* the entries of the file, source key -> value; no entries at all when an
\* exception left the loop (except Exception: return {})
load_po_simple(lines) ==
    CHOOSE r \in {IF st.raised THEN <<>> ELSE st.entries :
                    st \in {process_entry(LoaderRun(LoaderStart, lines))}} : TRUE

\* polib is an optional import; without it load_po is load_po_simple
load_po(lines) == load_po_simple(lines)

\* canonical key -> (source key, value, display form)
RECURSIVE build_canonical_map(_)
build_canonical_map(entries) ==
    IF entries = <<>> THEN <<>>
    ELSE LET last == entries[Len(entries)]
             d == build_canonical_map(Take(entries, Len(entries) - 1))
             c == canonicalize_msgid(last.key)
         IN  IF last.key # "" /\ c.key # ""
             THEN DictSet(d, c.key, [orig_id |-> last.key, orig_str |-> last.value,
                                     disp |-> c.display])
             ELSE d

\* canonical key -> (source key, value)
RECURSIVE MapForFill(_)
MapForFill(entries) ==
    IF entries = <<>> THEN <<>>
    ELSE LET last == entries[Len(entries)]
             d == MapForFill(Take(entries, Len(entries) - 1))
             c == canonicalize_msgid(last.key)
         IN  IF c.key # ""
             THEN DictSet(d, c.key, [msgid |-> last.key, msgstr |-> last.value])
             ELSE d

build_translation_map_for_fill(lines) == MapForFill(load_po(lines))

\* The file of a document given by its entries, in declaration order.
RECURSIVE RenderEntries(_)
RenderEntries(es) ==
    IF es = <<>> THEN <<>>
    ELSE << "msgid " \o po_escape(Head(es).msgid) \o NL,
            "msgstr " \o po_escape(Head(es).msgstr) \o NL,
            NL >> \o RenderEntries(Tail(es))

\* Source keys that canonicalize to the same key "save file", and one that
\* does not; two values.
MapEntries ==
    {[msgid |-> k, msgstr |-> v] : k \in {"Save file", "save file.", "<b>Save</b> file", "Open"},
                                   v \in {"x", "y"}}

MapInit ==
    /\ pc = "call"
    /\ arg \in {[entries |-> es, lines |-> RenderEntries(es)] :
                    es \in SeqsUpTo(MapEntries, MaxEntries)}
    /\ ret = NoRet

\* the document is loaded and its canonical map is built
LoadAndBuild ==
    /\ pc = "call"
    /\ pc' = "done"
    /\ ret' = [canonical |-> build_canonical_map(load_po(arg.lines)),
               fill |-> build_translation_map_for_fill(arg.lines)]
    /\ UNCHANGED arg

MapNext == LoadAndBuild

SpecMap == MapInit /\ [][MapNext]_vars

\* the position in the document of the last entry with canonical key k
LastDeclared(es, k) == MaxOf({i \in 1..Len(es) : canonicalize_msgid(es[i].msgid).key = k})

\* C10: the map holds one item per canonical key of the document, and that
\* item is the source key and the value of the entry declared last with the key,
\* in the canonical map and in the map Fill builds.
C10_LastDeclaredWins ==
    pc = "done" =>
        LET es == arg.entries
            keys == {canonicalize_msgid(es[i].msgid).key : i \in 1..Len(es)}
        IN  /\ {ret.canonical[i].key : i \in 1..Len(ret.canonical)} = keys
            /\ Len(ret.canonical) = Cardinality(keys)
            /\ \A k \in keys :
                  /\ DictGet(ret.canonical, k).orig_id = es[LastDeclared(es, k)].msgid
                  /\ DictGet(ret.canonical, k).orig_str = es[LastDeclared(es, k)].msgstr
                  /\ DictGet(ret.fill, k).msgid = es[LastDeclared(es, k)].msgid
                  /\ DictGet(ret.fill, k).msgstr = es[LastDeclared(es, k)].msgstr

\* The blocks of a loaded document: a simple entry, a value on a continuation
\* line, a plural entry with its plural key, a plural entry without a plural
\* key, an entry followed by the context line of the next entry, an entry
\* without a value, the header entry, an entry with comment lines.
LoadBlocks ==
    { << "msgid \"Save file\"\n", "msgstr \"Ment f\"\n", "\n" >>,
      << "msgid \"Ok\"\n", "msgstr \"\"\n", "\"J\"\n" >>,
      << "msgid \"Open %d now\"\n", "msgid_plural \"Open %d nows\"\n",
         "msgstr[0] \"x\"\n", "msgstr[1] \"y\"\n", "\n" >>,
      << "msgid \"One day\"\n", "msgstr[0] \"n\"\n", "msgstr[1] \"m\"\n" >>,
      << "msgid \"Close\"\n", "msgstr \"Z\"\n", "\n", "msgctxt \"menu\"\n" >>,
      << "msgid \"Quit now\"\n", "msgstr \"\"\n", "\n" >>,
      << "msgid \"\"\n", "msgstr \"\"\n", "\"a\\n\"\n", "\n" >>,
      << "msgid \"Help\"\n", "msgstr \"S\"\n", "#, c-format\n", "# c\n" >> }

MaxLoadBlocks == 2      \* blocks of a loaded document

LoadInit ==
    /\ pc = "call"
    /\ arg \in {[lines |-> pre \o Flatten(bs)] :
                  pre \in {<<>>, << "# pre\n" >>, << "msgctxt \"menu\"\n" >>},
                  bs \in SeqsUpTo(LoadBlocks, MaxLoadBlocks)}
    /\ ret = NoRet

\* load_po_simple on the file with these lines
LoadPoSimple ==
    /\ pc = "call"
    /\ pc' = "loaded"
    /\ ret' = load_po_simple(arg.lines)
    /\ UNCHANGED arg

LoadNext == LoadPoSimple

SpecLoad == LoadInit /\ [][LoadNext]_vars

\* the value of the entry of a block as Fill and Compare are to see it: the
\* simple value, or the plural variant of index 0 when the simple value is empty
EntryValue(e) ==
    LET zero == {i \in 1..Len(e.plurals) : e.plurals[i].index = 0}
    IN  IF e.fstr # "" THEN e.fstr
        ELSE IF zero = {} THEN ""
        ELSE e.plurals[CHOOSE i \in zero : TRUE].value

\* C26: in a document whose entries have distinct keys, load_po_simple maps
\* the key of every block from which parse_entry_block reads a key that is not
\* empty to the value parse_entry_block reads from that block (the simple
\* value, or the plural variant of index 0 when the simple value is empty).
C26_LoaderAgreesWithParser ==
    pc = "loaded" =>
        LET blocks == split_file_into_entries(arg.lines).blocks
            parsed == [i \in 1..Len(blocks) |-> parse_entry_block(blocks[i])]
        IN  (\A i, j \in 1..Len(blocks) : parsed[i].fid = parsed[j].fid => i = j) =>
                \A i \in 1..Len(blocks) :
                    parsed[i].fid # "" =>
                        /\ DictHas(ret, parsed[i].fid)
                        /\ DictGet(ret, parsed[i].fid) = EntryValue(parsed[i])

----------------------------------------------------------------------------
(* Reconciliation: run_fill and run_irasjelek_fix, with the helpers they    *)
(* call and write_po_file.                                                   *)

\* the k-th match of PLACEHOLDER_RE in s is replaced by the k-th item of list
RECURSIVE SubPlaceholdersFrom(_, _)
SubPlaceholdersFrom(s, list) ==
    IF s = "" THEN ""
    ELSE IF PlaceholderLen(s) > 0
         THEN Head(list) \o SubPlaceholdersFrom(Drop(s, PlaceholderLen(s)), Tail(list))
    ELSE Ch(s, 1) \o SubPlaceholdersFrom(Drop(s, 1), list)

\* a plausible slip: the tokens are taken from the source key
adapt_placeholders_using_msgids_source_tokens(source_msgstr, source_msgid, target_msgid) ==
    LET stripped_source == strip_formatting_and_normalize_ws(remove_placeholders(source_msgid))
        stripped_target == strip_formatting_and_normalize_ws(remove_placeholders(target_msgid))
        source_msgstr_ph == extract_placeholders_list(source_msgstr)
        target_id_ph_list == extract_placeholders_list(source_msgid)
    IN  IF source_msgstr = "" \/ source_msgid = "" \/ target_msgid = "" THEN source_msgstr
        ELSE IF stripped_source # stripped_target THEN source_msgstr
        ELSE IF source_msgstr_ph = <<>> \/ target_id_ph_list = <<>> THEN source_msgstr
        ELSE IF Len(source_msgstr_ph) # Len(target_id_ph_list) THEN source_msgstr
        ELSE SubPlaceholdersFrom(source_msgstr, target_id_ph_list)

adapt_placeholders_using_msgids(source_msgstr, source_msgid, target_msgid) ==
    LET stripped_source == strip_formatting_and_normalize_ws(remove_placeholders(source_msgid))
        stripped_target == strip_formatting_and_normalize_ws(remove_placeholders(target_msgid))
        source_msgstr_ph == extract_placeholders_list(source_msgstr)
        target_id_ph_list == extract_placeholders_list(target_msgid)
    IN  IF source_msgstr = "" \/ source_msgid = "" \/ target_msgid = "" THEN source_msgstr
        ELSE IF stripped_source # stripped_target THEN source_msgstr
        ELSE IF source_msgstr_ph = <<>> \/ target_id_ph_list = <<>> THEN source_msgstr
        ELSE IF Len(source_msgstr_ph) # Len(target_id_ph_list) THEN source_msgstr
        ELSE SubPlaceholdersFrom(source_msgstr, target_id_ph_list)

\* q_dbl_open.sub(r'\1+', t) for (\s|^|\[)'' ; atStart: the scan is at the
\* start of the text
RECURSIVE SubOpen(_, _)
SubOpen(t, atStart) ==
    IF t = "" THEN ""
    ELSE IF (IsSpace(Ch(t, 1)) \/ Ch(t, 1) = "[") /\ startswith(Drop(t, 1), "''")
         THEN Ch(t, 1) \o "+" \o SubOpen(Drop(t, 3), FALSE)
    ELSE IF atStart /\ startswith(t, "''") THEN "+" \o SubOpen(Drop(t, 2), FALSE)
    ELSE Ch(t, 1) \o SubOpen(Drop(t, 1), FALSE)

\* q_dbl_close.sub(r'=\1', t) for ''(\s|[,.]|\]|$)
RECURSIVE SubClose(_)
SubClose(t) ==
    IF t = "" THEN ""
    ELSE IF t = "''" THEN "="
    ELSE IF startswith(t, "''") /\ (IsSpace(Ch(t, 3)) \/ Ch(t, 3) \in {",", ".", "]"})
         THEN "=" \o Ch(t, 3) \o SubClose(Drop(t, 3))
    ELSE Ch(t, 1) \o SubClose(Drop(t, 1))

\* the straight double quotes become opening and closing quotes in turn
RECURSIVE ToggleQuotes(_, _)
ToggleQuotes(t, o) ==
    IF t = "" THEN ""
    ELSE IF Ch(t, 1) = DQuote THEN (IF o THEN "+" ELSE "=") \o ToggleQuotes(Drop(t, 1), ~o)
    ELSE Ch(t, 1) \o ToggleQuotes(Drop(t, 1), o)

\* ellipsis.sub('^', t) for \.\.\.(?!\.)
RECURSIVE SubEllipsis(_)
SubEllipsis(t) ==
    IF t = "" THEN ""
    ELSE IF startswith(t, "...") /\ ~startswith(t, "....")
         THEN "^" \o SubEllipsis(Drop(t, 3))
    ELSE Ch(t, 1) \o SubEllipsis(Drop(t, 1))

\* dash.sub('-', t) for the en dash and the em dash
RECURSIVE SubDash(_)
SubDash(t) ==
    IF t = "" THEN ""
    ELSE (IF Ch(t, 1) \in {"|", ":"} THEN "-" ELSE Ch(t, 1)) \o SubDash(Drop(t, 1))

fix_text(t) ==
    LET closed == SubClose(SubOpen(t, TRUE))
        n == CountCh(closed, DQuote)
        toggled == IF n > 0 /\ n % 2 = 0 THEN ToggleQuotes(closed, TRUE) ELSE closed
    IN  IF t = "" THEN t ELSE SubDash(SubEllipsis(toggled))

\* write_po_file: the lines written to the output file
write_po_file(preamble, blocks, orig_lines) ==
    LET out == preamble \o Flatten(blocks)
    IN  IF /\ orig_lines # <<>>
           /\ strip(orig_lines[Len(orig_lines)]) = ""
           /\ (out = <<>> \/ strip(out[Len(out)]) # "")
        THEN Append(out, NL)
        ELSE out

\* a plausible slip: the plural variants are not looked at
target_empty_simple_only(fstr, plurals) == strip(fstr) = ""

\* target_empty of run_fill: the value and every plural variant are blank
target_empty(fstr, plurals) ==
    /\ strip(fstr) = ""
    /\ (plurals = <<>> \/ ~\E i \in 1..Len(plurals) : strip(plurals[i].value) # "")

\* has_plural of run_fill: the block has a line that declares plural variant 0
has_plural(block) == \E i \in 1..Len(block) : startswith(lstrip(block[i]), "msgstr[0]")

\* the value run_fill writes: the source value, with the placeholders of the
\* target key when both keys have as many
FillValue(src_orig, src_str, fid) ==
    IF Len(extract_placeholders_list(src_orig)) = Len(extract_placeholders_list(fid))
    THEN adapt_placeholders_using_msgids(src_str, src_orig, fid)
    ELSE src_str

\* a plausible slip: the filled block is not marked as needing review
FilledBlock_not_flagged(block, value) ==
    replace_msgstr_in_block(block, value, IF has_plural(block) THEN 0 ELSE None)

\* the block run_fill appends for a block it fills: the value is written to
\* the simple value, or to plural variant 0 if the block declares it, and the
\* block is flagged
FilledBlock(block, value) ==
    CHOOSE out \in {ensure_fuzzy_flag(new_b) :
                      new_b \in {replace_msgstr_in_block(block, value,
                                     IF has_plural(block) THEN 0 ELSE None)}} : TRUE

\* a plausible slip: a block whose value diverges from the source is flagged
FillParsed_flag_divergent(block, e, c, src_map, egyszavas) ==
    LET src == DictGet(src_map, c.key)
        skip == [block |-> block, filled |-> FALSE, divergence |-> <<>>]
    IN  IF e.fid = "" THEN skip
        ELSE IF ~DictHas(src_map, c.key) THEN skip
        ELSE IF ~target_empty(e.fstr, e.plurals)
             THEN IF check_divergence(src.msgstr, e.fstr).diverges
                  THEN [block |-> ensure_fuzzy_flag(block), filled |-> FALSE,
                        divergence |-> <<<<c.display, src.msgstr, e.fstr>>>>]
                  ELSE skip
        ELSE IF strip(src.msgstr) = "" THEN skip
        ELSE IF ~egyszavas /\ get_word_count_from_display(c.display) <= 1 THEN skip
        ELSE CHOOSE r \in {[block |-> FilledBlock(block, value), filled |-> TRUE,
                            divergence |-> <<>>] :
                              value \in {FillValue(src.msgid, src.msgstr, e.fid)}} : TRUE

\* a plausible slip: the guard lets a key of exactly one word through
FillParsed_guard_below_one(block, e, c, src_map, egyszavas) ==
    LET src == DictGet(src_map, c.key)
        skip == [block |-> block, filled |-> FALSE, divergence |-> <<>>]
    IN  IF e.fid = "" THEN skip
        ELSE IF ~DictHas(src_map, c.key) THEN skip
        ELSE IF ~target_empty(e.fstr, e.plurals)
             THEN IF check_divergence(src.msgstr, e.fstr).diverges
                  THEN [skip EXCEPT !.divergence = <<<<c.display, src.msgstr, e.fstr>>>>]
                  ELSE skip
        ELSE IF strip(src.msgstr) = "" THEN skip
        ELSE IF ~egyszavas /\ get_word_count_from_display(c.display) < 1 THEN skip
        ELSE CHOOSE r \in {[block |-> FilledBlock(block, value), filled |-> TRUE,
                            divergence |-> <<>>] :
                              value \in {FillValue(src.msgid, src.msgstr, e.fid)}} : TRUE

\* the body of the loop of run_fill for a block, e its parsed entry and c the
\* canonical key and display form of its key
FillParsed(block, e, c, src_map, egyszavas) ==
    LET src == DictGet(src_map, c.key)
        skip == [block |-> block, filled |-> FALSE, divergence |-> <<>>]
    IN  IF e.fid = "" THEN skip
        ELSE IF ~DictHas(src_map, c.key) THEN skip
        ELSE IF ~target_empty(e.fstr, e.plurals)
             THEN IF check_divergence(src.msgstr, e.fstr).diverges
                  THEN [skip EXCEPT !.divergence = <<<<c.display, src.msgstr, e.fstr>>>>]
                  ELSE skip
        ELSE IF strip(src.msgstr) = "" THEN skip
        ELSE IF ~egyszavas /\ get_word_count_from_display(c.display) <= 1 THEN skip
        ELSE CHOOSE r \in {[block |-> FilledBlock(block, value), filled |-> TRUE,
                            divergence |-> <<>>] :
                              value \in {FillValue(src.msgid, src.msgstr, e.fid)}} : TRUE

\* one iteration of the loop of run_fill over the blocks: the block appended to
\* updated_blocks, whether updated_count is incremented, and what is appended
\* to divergence_list
FillBlock(block, src_map, egyszavas) ==
    CHOOSE r \in {FillParsed(block, e, c, src_map, egyszavas) :
                    e \in {parse_entry_block(block)},
                    c \in {canonicalize_msgid(parse_entry_block(block).fid)}} : TRUE

\* the loop of run_fill over the blocks
RECURSIVE FillBlocks(_, _, _)
FillBlocks(blocks, src_map, egyszavas) ==
    IF blocks = <<>> THEN <<>>
    ELSE <<FillBlock(Head(blocks), src_map, egyszavas)>>
            \o FillBlocks(Tail(blocks), src_map, egyszavas)

NoFile == <<"no file">>

\* the call ends with the TypeError of parse_entry_block instead of a result:
\* nothing is returned and nothing is written
TypeError == [exception |-> "TypeError", written |-> NoFile]

\* what run_fill returns and writes, res the results of its loop
FillResult(doc, res, target_lines) ==
    LET updated_blocks == [i \in 1..Len(res) |-> res[i].block]
        filled == {i \in 1..Len(res) : res[i].filled}
    IN  [code |-> 0,
         preamble |-> doc.preamble,
         updated_blocks |-> updated_blocks,
         touched |-> filled,
         updated_count |-> Cardinality(filled),
         divergence_list |-> Flatten([i \in 1..Len(res) |-> res[i].divergence]),
         written |-> IF Cardinality(filled) > 0
                     THEN write_po_file(doc.preamble, updated_blocks, target_lines)
                     ELSE NoFile]

\* run_fill(source_po, target_po, egyszavas=egyszavas) on files that exist,
\* given by their lines: the return code, the document handed to
\* write_po_file, the blocks filled, and the lines of the file written
run_fill(source_lines, target_lines, egyszavas) ==
    CHOOSE r \in {IF \E i \in 1..Len(doc.blocks) : parse_entry_block_raises(doc.blocks[i])
                  THEN TypeError
                  ELSE FillResult(doc, FillBlocks(doc.blocks, src_map, egyszavas), target_lines) :
                    doc \in {split_file_into_entries(target_lines)},
                    src_map \in {build_translation_map_for_fill(source_lines)}} : TRUE

\* the loop of run_irasjelek_fix over plurals.items()
RECURSIVE FixPlurals(_, _)
FixPlurals(new_b, plurals) ==
    IF plurals = <<>> THEN new_b
    ELSE CHOOSE r \in {FixPlurals(next, Tail(plurals)) :
                         next \in {IF Head(plurals).value # "" /\ fx # Head(plurals).value
                                   THEN replace_msgstr_in_block(new_b, fx, Head(plurals).index)
                                   ELSE new_b : fx \in {fix_text(Head(plurals).value)}}} : TRUE

\* the body of the loop of run_irasjelek_fix for a block, e its parsed entry
\* and fx the fixed simple value
FixParsed(block, e, fx) ==
    LET fixed_str == e.fstr # "" /\ fx # e.fstr
        mod == fixed_str \/ \E i \in 1..Len(e.plurals) :
                   e.plurals[i].value # "" /\ fix_text(e.plurals[i].value) # e.plurals[i].value
    IN  IF e.fid = "" THEN [block |-> block, mod |-> FALSE]
        ELSE CHOOSE r \in {[block |-> IF mod THEN ensure_fuzzy_flag(b2) ELSE b2, mod |-> mod] :
                b2 \in {FixPlurals(b1, e.plurals) :
                          b1 \in {IF fixed_str THEN replace_msgstr_in_block(block, fx, None)
                                  ELSE block}}} : TRUE

\* one iteration of the loop of run_irasjelek_fix over the blocks
FixBlock(block) ==
    CHOOSE r \in {FixParsed(block, e, fx) :
                    e \in {parse_entry_block(block)},
                    fx \in {fix_text(parse_entry_block(block).fstr)}} : TRUE

\* the loop of run_irasjelek_fix over the blocks
RECURSIVE FixBlocks(_)
FixBlocks(blocks) ==
    IF blocks = <<>> THEN <<>> ELSE <<FixBlock(Head(blocks))>> \o FixBlocks(Tail(blocks))

\* what run_irasjelek_fix returns and writes, res the results of its loop
FixResult(doc, res, lines) ==
    LET updated_blocks == [i \in 1..Len(res) |-> res[i].block]
        fixed == {i \in 1..Len(res) : res[i].mod}
    IN  [code |-> 0,
         preamble |-> doc.preamble,
         updated_blocks |-> updated_blocks,
         touched |-> fixed,
         total_fixed |-> Cardinality(fixed),
         written |-> IF Cardinality(fixed) = 0 THEN NoFile
                     ELSE write_po_file(doc.preamble, updated_blocks, lines)]

\* run_irasjelek_fix(path) on a file that can be read, given by its lines
run_irasjelek_fix(lines) ==
    CHOOSE r \in {IF \E i \in 1..Len(doc.blocks) : parse_entry_block_raises(doc.blocks[i])
                  THEN TypeError
                  ELSE FixResult(doc, FixBlocks(doc.blocks), lines) :
                    doc \in {split_file_into_entries(lines)}} : TRUE

\* The source documents: entries whose keys canonicalize to the keys of the
\* target blocks below, with a value, with an empty value, with placeholders.
SourceDocs ==
    { << [msgid |-> "Save file", msgstr |-> "Ment f"],
         [msgid |-> "Open %s now", msgstr |-> "Nyit %s most"],
         [msgid |-> "Ok", msgstr |-> "J"] >>,
      << [msgid |-> "save file.", msgstr |-> ""],
         [msgid |-> "Ok", msgstr |-> "J"] >>,
      << [msgid |-> "Save file", msgstr |-> "wait"] >> }

\* The blocks of a target document: an empty value, a value, a blank value
\* followed by the comment lines of the next entry, plural variants that are
\* all empty, plural variants of which one has text, a key of one word, the
\* header entry, and a value on a continuation line.
TargetBlocks ==
    { << "msgid \"Save file\"\n", "msgstr \"\"\n", "\n" >>,
      << "msgid \"save file.\"\n", "msgstr \"Wait...\"\n" >>,
      << "msgid \"Save file\"\n", "msgstr \" \"\n", "#, c-format\n" >>,
      << "msgid \"Open %d now\"\n", "msgid_plural \"Open %d nows\"\n",
         "msgstr[0] \"\"\n", "msgstr[1] \"\"\n" >>,
      << "msgid \"Open %d now\"\n", "msgid_plural \"Open %d nows\"\n",
         "msgstr[0] \"\"\n", "msgstr[1] \"''x''\"\n" >>,
      << "msgid \"Ok\"\n", "msgstr \"\"\n" >>,
      << "msgid \"\"\n", "msgstr \"\"\n", "\"a...\\n\"\n" >>,
      << "  msgid \"Save file\"\n", "  msgstr \"\"\n", "  \"Ment f\"\n", "\n" >> }

Preambles == { <<>>, << "# pre\n" >> }

MaxTargetBlocks == 2    \* blocks of a target document

ReconcileInit ==
    /\ pc = "call"
    /\ arg \in {[source_lines |-> RenderEntries(src),
                 target_lines |-> pre \o Flatten(bs),
                 egyszavas |-> e] :
                    src \in SourceDocs, pre \in Preambles,
                    bs \in SeqsUpTo(TargetBlocks, MaxTargetBlocks), e \in BOOLEAN}
    /\ ret = NoRet

\* Fill: the target document is filled from the source document
RunFill ==
    /\ pc = "call"
    /\ pc' = "filled"
    /\ ret' = run_fill(arg.source_lines, arg.target_lines, arg.egyszavas)
    /\ UNCHANGED arg

\* Punctuation Auto-Fix of the target document
RunFix ==
    /\ pc = "call"
    /\ pc' = "fixed"
    /\ ret' = run_irasjelek_fix(arg.target_lines)
    /\ UNCHANGED arg

ReconcileNext == RunFill \/ RunFix

SpecReconcile == ReconcileInit /\ [][ReconcileNext]_vars

\* the blocks of the target document as it was read
InputBlocks == split_file_into_entries(arg.target_lines).blocks

\* the parsed simple value or a plural variant is not the empty string
HasValue(e) == e.fstr # "" \/ \E i \in 1..Len(e.plurals) : e.plurals[i].value # ""

\* the parsed simple value or a plural variant has a character that is not
\* white space
HasText(e) == strip(e.fstr) # "" \/ \E i \in 1..Len(e.plurals) : strip(e.plurals[i].value) # ""

\* the parsed value of the slot Fill writes in a block: the plural variant of
\* index 0 if the block declares it, the simple value otherwise
TargetSlot(block) ==
    LET e == parse_entry_block(block)
        zero == {i \in 1..Len(e.plurals) : e.plurals[i].index = 0}
    IN  IF ~has_plural(block) THEN e.fstr
        ELSE IF zero = {} THEN ""
        ELSE e.plurals[CHOOSE i \in zero : TRUE].value

\* the lines of a block that declare a key
KeyLines(block) ==
    LET at == {i \in 1..Len(block) : IsMsgidLine(block[i])}
    IN  [j \in 1..Cardinality(at) |-> block[Nth(at, j)]]

\* C4 as stated: a target block whose parsed simple value is not empty, or that
\* has a plural variant that is not empty, is emitted by run_fill identical to
\* its input block, and the slot Fill writes in a block was empty before.
C4_NonEmptyNeverOverwritten ==
    pc = "filled" =>
        \A i \in 1..Len(InputBlocks) :
            LET p == parse_entry_block(InputBlocks[i])
            IN  /\ HasValue(p) => ret.updated_blocks[i] = InputBlocks[i]
                /\ i \in ret.touched =>
                      /\ TargetSlot(InputBlocks[i]) = ""
                      /\ TargetSlot(ret.updated_blocks[i]) # ""

\* C4 amended: a target block whose parsed simple value, or one of whose plural
\* variants, has a character that is not white space is emitted by run_fill
\* identical to its input block; a block that is filled had only empty or
\* white-space values, and the slot written (the simple value, or the plural
\* variant of index 0) has a value after it.
C4_NonBlankNeverOverwritten ==
    pc = "filled" =>
        \A i \in 1..Len(InputBlocks) :
            LET p == parse_entry_block(InputBlocks[i])
            IN  /\ HasText(p) => ret.updated_blocks[i] = InputBlocks[i]
                /\ i \in ret.touched =>
                      /\ ~HasText(p)
                      /\ strip(TargetSlot(InputBlocks[i])) = ""
                      /\ strip(TargetSlot(ret.updated_blocks[i])) # ""

\* Fill has filled the first block and has left the second block, which has a
\* value that diverges from the source value, as it was
C4_Witness ==
    /\ pc = "filled"
    /\ Len(InputBlocks) = 2
    /\ ret.touched = {1}
    /\ HasText(parse_entry_block(InputBlocks[2]))
    /\ ret.divergence_list # <<>>
    /\ ret.updated_blocks[1] # InputBlocks[1]
    /\ ret.updated_blocks[2] = InputBlocks[2]

\* C6: in the document Fill or Punctuation Auto-Fix writes, the preamble is the
\* input preamble, there are as many blocks as in the input, each with the key
\* declaration of the input block at its place, every block that was not filled or fixed is
\* line for line its input block, and the file holds the preamble and the
\* blocks in that order.
C6_UntouchedBlocksIdentical ==
    (pc \in {"filled", "fixed"} /\ ret.written # NoFile) =>
        /\ ret.preamble = split_file_into_entries(arg.target_lines).preamble
        /\ Len(ret.updated_blocks) = Len(InputBlocks)
        /\ \A i \in 1..Len(InputBlocks) :
              /\ KeyLines(ret.updated_blocks[i]) = KeyLines(InputBlocks[i])
              /\ i \notin ret.touched => ret.updated_blocks[i] = InputBlocks[i]
        /\ Take(ret.written, Len(ret.preamble) + Len(Flatten(ret.updated_blocks)))
              = ret.preamble \o Flatten(ret.updated_blocks)

\* Auto-Fix has changed the second block of a document with a preamble and has
\* left the first block as it was
C6_Witness ==
    /\ pc = "fixed"
    /\ ret.written # NoFile
    /\ ret.preamble # <<>>
    /\ Len(InputBlocks) = 2
    /\ ret.touched = {2}
    /\ ret.updated_blocks[2] # InputBlocks[2]
    /\ ret.updated_blocks[1] = InputBlocks[1]

\* the flags lines of a block, in their order
FlagLines(block) == SelectSeq(block, IsFlagsLine)

\* C24: every block that Fill has filled and every block that Punctuation
\* Auto-Fix has changed has, in the output, a flags line that carries the
\* review marker; every other block has in the output the flags lines it had
\* in the input, no more and no other.
C24_MarkedIffPatched ==
    (pc \in {"filled", "fixed"} /\ ret # TypeError) =>
        \A i \in 1..Len(InputBlocks) :
            IF i \in ret.touched
            THEN \E j \in 1..Len(ret.updated_blocks[i]) :
                    CarriesMarker(ret.updated_blocks[i][j])
            ELSE FlagLines(ret.updated_blocks[i]) = FlagLines(InputBlocks[i])

\* Fill has filled the first block, which had no flags line, and has left
\* alone the second block, which ends with a flags line without the marker
C24_Witness ==
    /\ pc = "filled"
    /\ Len(InputBlocks) = 2
    /\ ret.touched = {1}
    /\ FlagLines(InputBlocks[1]) = <<>>
    /\ CarriesMarker(ret.updated_blocks[1][1])
    /\ FlagLines(InputBlocks[2]) = << "#, c-format\n" >>
    /\ FlagLines(ret.updated_blocks[2]) = << "#, c-format\n" >>

\* the comment lines directly before line k of a file: the lines before it up
\* to the nearest line that is not a comment line
CommentsBefore(lines, k) ==
    {j \in 1..(k - 1) : \A x \in j..(k - 1) : startswith(lstrip(lines[x]), "#")}

\* the flags lines among them
FlagsBefore(lines, k) == {j \in CommentsBefore(lines, k) : IsFlagsLine(lines[j])}

\* how many times a flags line carries the review marker
MarkerCount(ln) ==
    LET items == SplitComma(Drop(lstrip(ln), 2))
    IN  Cardinality({i \in 1..Len(items) : strip(items[i]) = "fuzzy"})

\* C30: for every entry that Fill or Punctuation Auto-Fix has patched and whose
\* key declaration is directly preceded, in the file read, by comment lines
\* with a flags line among them, the comment lines directly preceding its key
\* declaration in the file written have exactly one flags line, and that line
\* carries the review marker exactly once.
C30_OneFlagsLinePerEntry ==
    (pc \in {"filled", "fixed"} /\ ret.written # NoFile) =>
        \A i \in ret.touched :
            LET kin == Nth(msgid_indices(arg.target_lines), i)
                kout == Nth(msgid_indices(ret.written), i)
            IN  FlagsBefore(arg.target_lines, kin) # {} =>
                    /\ Cardinality(FlagsBefore(ret.written, kout)) = 1
                    /\ \A j \in FlagsBefore(ret.written, kout) : MarkerCount(ret.written[j]) = 1

\* Blocks from which no key is parsed: the header entry, a key that is not
\* quoted, a key line whose text Python reads as a tuple of two strings; and
\* two well-formed blocks, one that Fill fills and one that Auto-Fix fixes.
SkipBlocks ==
    { << "msgid \"\"\n", "msgstr \"\"\n", "\"a...\\n\"\n", "\n" >>,
      << "msgid Save file\n", "msgstr \"x...\"\n" >>,
      << "msgid \"Save\", \"file\"\n", "msgstr \"\"\n" >>,
      << "msgid \"Save file\"\n", "msgstr \"\"\n" >>,
      << "msgid \"Open\"\n", "msgstr \"x...\"\n" >> }

SkipInit ==
    /\ pc = "call"
    /\ arg \in {[source_lines |-> RenderEntries(src),
                 target_lines |-> Flatten(bs),
                 egyszavas |-> e] :
                    src \in SourceDocs, bs \in SeqsUpTo(SkipBlocks, MaxTargetBlocks),
                    e \in BOOLEAN}
    /\ ret = NoRet

SkipNext == RunFill \/ RunFix

SpecSkip == SkipInit /\ [][SkipNext]_vars

\* no key that is not empty can be parsed from the block
NoKey(block) == parse_entry_block_raises(block) \/ parse_entry_block(block).fid = ""

\* C16: Fill and Auto-Fix come to an end with a result for every document; in
\* it every block from which no non-empty key can be parsed is its input
\* block, and every other block is what the operation makes of that block,
\* whatever the blocks before it are.
C16_SkipAndPreserve ==
    pc \in {"filled", "fixed"} =>
        /\ ret # TypeError
        /\ Len(ret.updated_blocks) = Len(InputBlocks)
        /\ \A i \in 1..Len(InputBlocks) :
              IF NoKey(InputBlocks[i]) THEN ret.updated_blocks[i] = InputBlocks[i]
              ELSE ret.updated_blocks[i] =
                      IF pc = "fixed" THEN FixBlock(InputBlocks[i]).block
                      ELSE FillBlock(InputBlocks[i],
                                     build_translation_map_for_fill(arg.source_lines),
                                     arg.egyszavas).block

\* A path of the file system: whether os.path.isfile holds for it, whether
\* opening and reading it succeeds, and the lines read.
FilesOf(docs) ==
    {[isfile |-> FALSE, readable |-> FALSE, lines |-> <<>>]}
        \cup {[isfile |-> TRUE, readable |-> r, lines |-> d] : r \in BOOLEAN, d \in docs}

\* the outcome of a run on paths: the return code, whether the message that
\* the output document was created is printed, and the lines of the file that
\* exists afterwards
Outcome(code, reported, file) == [code |-> code, reported |-> reported, file |-> file]

\* run_fill(source_po, target_po) on paths, writable whether open(out, "w") and
\* writing succeed: load_po_simple answers a source it cannot read with no
\* entries, write_po_file answers a failed write with False, which run_fill
\* does not look at
run_fill_on_paths(source, target, writable, egyszavas) ==
    IF ~source.isfile \/ ~target.isfile THEN Outcome(2, FALSE, NoFile)
    ELSE IF ~target.readable THEN Outcome(1, FALSE, NoFile)
    ELSE CHOOSE o \in {IF r = TypeError THEN TypeError
                       ELSE Outcome(r.code, r.updated_count > 0,
                                    IF writable THEN r.written ELSE NoFile) :
                         r \in {run_fill(IF source.readable THEN source.lines ELSE <<>>,
                                         target.lines, egyszavas)}} : TRUE

\* run_irasjelek_fix(path) on a path: the message that the file was written is
\* printed only if write_po_file answers True, the return code is 0 either way
run_irasjelek_fix_on_path(target, writable) ==
    IF ~target.isfile \/ ~target.readable THEN Outcome(1, FALSE, NoFile)
    ELSE CHOOSE o \in {IF r = TypeError THEN TypeError
                       ELSE Outcome(r.code, r.total_fixed > 0 /\ writable,
                                    IF writable THEN r.written ELSE NoFile) :
                         r \in {run_irasjelek_fix(target.lines)}} : TRUE

\* Target documents of up to MaxTargetBlocks blocks: one that Fill fills, one
\* that Auto-Fix fixes, one that neither changes.
PathBlocks ==
    { << "msgid \"Save file\"\n", "msgstr \"\"\n" >>,
      << "msgid \"Open\"\n", "msgstr \"x...\"\n" >>,
      << "msgid \"Ok\"\n", "msgstr \"J\"\n" >> }

PathsInit ==
    /\ pc = "call"
    /\ arg \in {[source |-> src, target |-> tgt, writable |-> w, egyszavas |-> e] :
                    src \in FilesOf({RenderEntries(d) : d \in SourceDocs}),
                    tgt \in FilesOf({Flatten(bs) : bs \in SeqsUpTo(PathBlocks, MaxTargetBlocks)}),
                    w \in BOOLEAN, e \in BOOLEAN}
    /\ ret = NoRet

RunFillOnPaths ==
    /\ pc = "call"
    /\ pc' = "filled"
    /\ ret' = run_fill_on_paths(arg.source, arg.target, arg.writable, arg.egyszavas)
    /\ UNCHANGED arg

RunFixOnPath ==
    /\ pc = "call"
    /\ pc' = "fixed"
    /\ ret' = run_irasjelek_fix_on_path(arg.target, arg.writable)
    /\ UNCHANGED arg

PathsNext == RunFillOnPaths \/ RunFixOnPath

SpecPaths == PathsInit /\ [][PathsNext]_vars

\* reading the file at the path fails
ReadFails(f) == ~f.isfile \/ ~f.readable

\* C17: when reading the source or the target fails, or the output document
\* that run_fill has to write (a block was filled) cannot be written, run_fill
\* returns a code other than 0 and does not print that a document was
\* created; run_irasjelek_fix returns a code other than 0 when its input cannot
\* be read or the output it has to write (a block was fixed) cannot be written.
C17_IOFailuresReported ==
    /\ pc = "filled" =>
          \E r \in {run_fill(arg.source.lines, arg.target.lines, arg.egyszavas)} :
              (\/ ReadFails(arg.source)
               \/ ReadFails(arg.target)
               \/ (~arg.writable /\ r.updated_count > 0))
                  => ret.code # 0 /\ ~ret.reported
    /\ pc = "fixed" =>
          \E r \in {run_irasjelek_fix(arg.target.lines)} :
              (ReadFails(arg.target) \/ (~arg.writable /\ r.total_fixed > 0))
                  => ret.code # 0

\* Keys that canonicalize to the same key with other placeholders, with
\* markup, with two placeholders, and one in another case; values with as many
\* placeholders as the keys, with fewer and with none.
AdaptKeys ==
    {"Open %s now", "Open %d now", "<b>Open</b> %s now", "open %d now", "%d: %s now", "%s: %d now"}

AdaptValues == {"Nyit %s most", "Nyit most", "%s %lld", "%s: %s %s"}

AdaptInit ==
    /\ pc = "call"
    /\ arg \in {[source_lines |-> RenderEntries(<<[msgid |-> sk, msgstr |-> sv]>>),
                 target_lines |-> RenderEntries(<<[msgid |-> tk, msgstr |-> ""]>>),
                 egyszavas |-> e] :
                    sk \in AdaptKeys, sv \in AdaptValues, tk \in AdaptKeys, e \in BOOLEAN}
    /\ ret = NoRet

AdaptNext == RunFill

SpecAdapt == AdaptInit /\ [][AdaptNext]_vars

\* the k-th placeholder of s replaced by the k-th token of the list, as far as
\* the list goes
RECURSIVE InOrder(_, _)
InOrder(s, list) ==
    IF s = "" \/ list = <<>> THEN s
    ELSE IF PlaceholderLen(s) > 0
         THEN Head(list) \o InOrder(Drop(s, PlaceholderLen(s)), Tail(list))
    ELSE Ch(s, 1) \o InOrder(Drop(s, 1), list)

\* the key and the value of the only entry of the source document, and the
\* key of the only block of the target document
SourceEntry == load_po(arg.source_lines)[1]

TargetKey == parse_entry_block(InputBlocks[1]).fid

\* C23 as stated: when the keys are the same text once the placeholders are
\* taken out and have as many placeholders, the value written is the source
\* value with its placeholders replaced in order by those of the target key;
\* otherwise it is the source value.
C23_AdaptedWhenKeysAgree ==
    (pc = "filled" /\ ret.touched = {1}) =>
        \E sk \in {SourceEntry.key}, sv \in {SourceEntry.value}, tk \in {TargetKey} :
            TargetSlot(ret.updated_blocks[1]) =
                IF /\ remove_placeholders(sk) = remove_placeholders(tk)
                   /\ Len(extract_placeholders_list(sk)) = Len(extract_placeholders_list(tk))
                THEN InOrder(sv, extract_placeholders_list(tk))
                ELSE sv

\* C23 amended: the keys are compared with markup taken out as well, and the
\* source value is adapted only if it has exactly as many placeholders as the
\* target key; otherwise the source value is written as it is.
C23_AdaptedWhenCountsAgree ==
    (pc = "filled" /\ ret.touched = {1}) =>
        \E sk \in {SourceEntry.key}, sv \in {SourceEntry.value}, tk \in {TargetKey} :
            TargetSlot(ret.updated_blocks[1]) =
                IF /\ strip_formatting_and_normalize_ws(remove_placeholders(sk))
                        = strip_formatting_and_normalize_ws(remove_placeholders(tk))
                   /\ Len(extract_placeholders_list(sk)) = Len(extract_placeholders_list(tk))
                   /\ Len(extract_placeholders_list(sv)) = Len(extract_placeholders_list(tk))
                THEN InOrder(sv, extract_placeholders_list(tk))
                ELSE sv

\* the value of a source key with markup is written with the placeholder of
\* the target key
C23_Witness ==
    /\ pc = "filled"
    /\ ret.touched = {1}
    /\ SourceEntry.key = "<b>Open</b> %s now"
    /\ SourceEntry.value = "Nyit %s most"
    /\ TargetKey = "Open %d now"
    /\ TargetSlot(ret.updated_blocks[1]) = "Nyit %d most"

MaxFixLen == 3      \* characters of a short text handed to fix_text
MaxPeriods == 7     \* ASCII periods in a row in a text handed to fix_text

RECURSIVE Periods(_)
Periods(k) == IF k = 0 THEN "" ELSE "." \o Periods(k - 1)

\* The texts fix_text is applied to: the short texts over a letter, the period,
\* the straight quotes and the blank, and runs of periods of every length up to
\* MaxPeriods at the start, in the middle and at the end of a text, also next
\* to a typographic ellipsis.
FixTexts ==
    StringsUpTo({"a", ".", DQuote, "'", " "}, MaxFixLen)
        \cup {pre \o Periods(k) \o post : pre \in {"", "Wait"}, k \in 0..MaxPeriods,
                                          post \in {"", "a", "^"}}

\* the document with one entry whose value is t
FixDoc(t) == RenderEntries(<<[msgid |-> "two words", msgstr |-> t]>>)

FixInit ==
    /\ pc = "call"
    /\ arg \in {[t |-> t] : t \in FixTexts}
    /\ ret = NoRet

\* fix_text(t)
FixOnce ==
    /\ pc = "call"
    /\ pc' = "once"
    /\ ret' = <<fix_text(arg.t)>>
    /\ UNCHANGED arg

\* fix_text applied to its own result
FixTwice ==
    /\ pc = "once"
    /\ pc' = "twice"
    /\ ret' = Append(ret, fix_text(ret[1]))
    /\ UNCHANGED arg

\* run_irasjelek_fix on the document with the value t
FixDocument ==
    /\ pc = "call"
    /\ pc' = "fixed"
    /\ ret' = run_irasjelek_fix(FixDoc(arg.t))
    /\ UNCHANGED arg

\* run_irasjelek_fix on the document the first run has written
FixDocumentAgain ==
    /\ pc = "fixed"
    /\ ret.written # NoFile
    /\ pc' = "refixed"
    /\ ret' = [first |-> ret, second |-> run_irasjelek_fix(ret.written)]
    /\ UNCHANGED arg

FixNext == FixOnce \/ FixTwice \/ FixDocument \/ FixDocumentAgain

SpecFix == FixInit /\ [][FixNext]_vars

\* C25: the text fix_text returns has no three ASCII periods in a row, and
\* neither has the value of the entry in the document run_irasjelek_fix writes.
C25_NoAsciiEllipsisLeft ==
    /\ pc = "once" => ~Contains(ret[1], "...")
    /\ (pc = "fixed" /\ ret.written # NoFile) =>
          ~Contains(parse_entry_block(ret.updated_blocks[1]).fstr, "...")

\* C29: fix_text applied to its own result returns that result, and
\* run_irasjelek_fix on a document it has written fixes no block and writes no
\* file.
C29_FixIdempotent ==
    /\ pc = "twice" => ret[2] = ret[1]
    /\ pc = "refixed" => (ret.second.total_fixed = 0 /\ ret.second.written = NoFile)

\* Keys of no word, of one word (plain, in markup, with a hyphen, with a
\* placeholder), of placeholders only, and of two words.
GuardKeys == {"Ok", "<b>Ok</b>", "Wi-Fi", "Ok %s", "%s", "%d: %s", "?", "Ok now"}

\* One-entry source and target documents over these keys, the source with and
\* without a value, the target with and without one.
GuardInit ==
    /\ pc = "call"
    /\ arg \in {[source_lines |-> RenderEntries(<<[msgid |-> sk, msgstr |-> sv]>>),
                 target_lines |-> RenderEntries(<<[msgid |-> tk, msgstr |-> tv]>>),
                 egyszavas |-> e] :
                    sk \in GuardKeys, sv \in {"J x", ""}, tk \in GuardKeys,
                    tv \in {"", "x"}, e \in BOOLEAN}
    /\ ret = NoRet

GuardNext == RunFill

SpecGuard == GuardInit /\ [][GuardNext]_vars

\* the display form of the key of a block has at most one word
AtMostOneWord(block) ==
    \E c \in {canonicalize_msgid(parse_entry_block(block).fid)} :
        get_word_count_from_display(c.display) <= 1

\* the source has a value that is not blank for the key of the block, and the
\* block has no value
Fillable(block) ==
    \E e \in {parse_entry_block(block)} :
        \E key \in {canonicalize_msgid(e.fid).key},
           src_map \in {build_translation_map_for_fill(arg.source_lines)} :
            /\ e.fid # ""
            /\ DictHas(src_map, key)
            /\ strip(DictGet(src_map, key).msgstr) # ""
            /\ ~HasText(e)

\* C12: without the single-word override run_fill leaves every block whose
\* display form has at most one word as it was, also when the source has a
\* value for its key; with the override such a block is filled when any other
\* block would be.
C12_SingleWordGuard ==
    pc = "filled" =>
        \E blocks \in {InputBlocks} :
            \A i \in 1..Len(blocks) :
                AtMostOneWord(blocks[i]) =>
                    IF arg.egyszavas
                    THEN Fillable(blocks[i]) <=> i \in ret.touched
                    ELSE i \notin ret.touched /\ ret.updated_blocks[i] = blocks[i]

\* without the override a key of one word and a placeholder is left empty
\* although the source has a value for it
C12_Witness ==
    /\ pc = "filled"
    /\ ~arg.egyszavas
    /\ Len(InputBlocks) = 1
    /\ parse_entry_block(InputBlocks[1]).fid = "Ok %s"
    /\ AtMostOneWord(InputBlocks[1])
    /\ Fillable(InputBlocks[1])
    /\ ret.touched = {}
    /\ ret.written = NoFile

----------------------------------------------------------------------------
(* Compare: run_compare.  sorted() orders strings by the code points of     *)
(* their characters.                                                         *)

\* the printable ASCII characters from the space on, in code point order,
\* without the grave accent (code point 96), which is in no string of the model
AsciiFrom32 ==
    " !\"#$%&'()*+,-./0123456789:;<=>?@ABCDEFGHIJKLMNOPQRSTUVWXYZ[\\]^_abcdefghijklmnopqrstuvwxyz{|}~"

\* ord(c); the stand-ins have the code points of the characters they stand for
CodePoint(c) ==
    LET at == CHOOSE i \in 1..Len(AsciiFrom32) : Ch(AsciiFrom32, i) = c
    IN  IF c = TAB THEN 9
        ELSE IF c = NL THEN 10
        ELSE IF c = "\f" THEN 12
        ELSE IF c = CR THEN 13
        ELSE IF c = "^" THEN 8230
        ELSE IF c = "+" THEN 8222
        ELSE IF c = "=" THEN 8221
        ELSE IF c = "|" THEN 8211
        ELSE IF c = ":" THEN 8212
        ELSE IF c = "(" THEN 65308
        ELSE IF c = ")" THEN 65310
        ELSE IF c = "/" THEN 65286
        ELSE IF at <= 64 THEN at + 31 ELSE at + 32

\* a < b for two strings
RECURSIVE StrLess(_, _)
StrLess(a, b) ==
    IF b = "" THEN FALSE
    ELSE IF a = "" THEN TRUE
    ELSE IF Ch(a, 1) = Ch(b, 1) THEN StrLess(Drop(a, 1), Drop(b, 1))
    ELSE CodePoint(Ch(a, 1)) < CodePoint(Ch(b, 1))

\* sorted(S) for a set of strings
RECURSIVE sorted(_)
sorted(S) ==
    IF S = {} THEN <<>>
    ELSE LET least == CHOOSE x \in S : \A y \in S : x = y \/ StrLess(x, y)
         IN  <<least>> \o sorted(S \ {least})

DictKeys(d) == {d[i].key : i \in 1..Len(d)}

\* a plausible slip: the keys are visited in the order of the first document
CompareOrder_as_declared(m1, m2) ==
    LET at == {i \in 1..Len(m1) : m1[i].key \in DictKeys(m2)}
    IN  [j \in 1..Cardinality(at) |-> m1[Nth(at, j)].key]

\* sorted(common) of run_compare
CompareOrder(m1, m2) == sorted(DictKeys(m1) \cap DictKeys(m2))

\* the loop of run_compare over the keys: the entries reported, each with the
\* key it is reported for
RECURSIVE CompareLoop(_, _, _)
CompareLoop(keys, m1, m2) ==
    IF keys = <<>> THEN <<>>
    ELSE LET k == Head(keys)
             e1 == DictGet(m1, k)
             e2 == DictGet(m2, k)
             rest == CompareLoop(Tail(keys), m1, m2)
         IN  IF e1.orig_str = "" /\ e2.orig_str = "" THEN rest
             ELSE CHOOSE r \in {IF div.diverges
                                THEN <<[k |-> k, d1 |-> e1.disp, str1 |-> e1.orig_str,
                                        str2 |-> e2.orig_str, sim |-> div.similarity]>> \o rest
                                ELSE rest :
                                   div \in {check_divergence(e1.orig_str, e2.orig_str)}} : TRUE

\* run_compare(path1, path2) on two files given by their lines; m holds the
\* canonical maps m1 and m2 of the two documents
run_compare(lines1, lines2) ==
    CHOOSE r \in {[code |-> 0, diffs |-> Len(report), report |-> report] :
                    report \in {CompareLoop(CompareOrder(m[1], m[2]), m[1], m[2]) :
                                   m \in {<<e[1], e[2]>> :
                                            e \in {[d \in {1, 2} |->
                                                      build_canonical_map(load_po(
                                                          IF d = 1 THEN lines1 ELSE lines2))]}}}} : TRUE

\* Source keys whose canonical keys are in another order than they are:
\* "Zed" is before "abc" and "ab c?", "zed" is after "abc" and "ab c{Q}".
CompareEntries1 ==
    {[msgid |-> k, msgstr |-> v] : k \in {"Zed", "abc.", "Ab c?"}, v \in {"", "x y"}}

CompareEntries2 ==
    {[msgid |-> k, msgstr |-> "x"] : k \in {"zed", "Abc", "ab c?"}}
        \cup {[msgid |-> "zed", msgstr |-> ""]}

MaxCompareEntries == 2      \* entries of a compared document

RECURSIVE Reverse(_)
Reverse(q) == IF q = <<>> THEN <<>> ELSE Append(Reverse(Tail(q)), Head(q))

CompareInit ==
    /\ pc = "call"
    /\ arg \in {[entries1 |-> e1, entries2 |-> e2] :
                    e1 \in SeqsUpTo(CompareEntries1, MaxCompareEntries),
                    e2 \in SeqsUpTo(CompareEntries2, MaxCompareEntries)}
    /\ ret = NoRet

\* the two documents are compared as they are declared, and declared in the
\* reverse order
RunCompare ==
    /\ pc = "call"
    /\ pc' = "compared"
    /\ ret' = [order \in {"declared", "reversed"} |->
                  run_compare(
                      RenderEntries(IF order = "declared" THEN arg.entries1
                                    ELSE Reverse(arg.entries1)),
                      RenderEntries(IF order = "declared" THEN arg.entries2
                                    ELSE Reverse(arg.entries2)))]
    /\ UNCHANGED arg

CompareNext == RunCompare

SpecCompare == CompareInit /\ [][CompareNext]_vars

\* no two entries of the document have the same source key
DistinctKeys(es) == \A i, j \in 1..Len(es) : es[i].msgid = es[j].msgid => i = j

\* C13: Compare reports a key exactly when it is in both canonical maps, the
\* two values are not both empty and check_divergence of them diverges; the
\* report is in ascending order of the canonical keys; and it is the same when
\* the entries of the documents are declared in another order.
C13_CompareReport ==
    pc = "compared" =>
        \E m1 \in {build_canonical_map(e1) : e1 \in {load_po(RenderEntries(arg.entries1))}},
           m2 \in {build_canonical_map(e2) : e2 \in {load_po(RenderEntries(arg.entries2))}},
           report \in {ret.declared.report} :
            /\ {report[i].k : i \in 1..Len(report)}
                  = {k \in DictKeys(m1) \cap DictKeys(m2) :
                        /\ ~(DictGet(m1, k).orig_str = "" /\ DictGet(m2, k).orig_str = "")
                        /\ check_divergence(DictGet(m1, k).orig_str,
                                            DictGet(m2, k).orig_str).diverges}
            /\ \A i \in 1..Len(report) :
                  /\ report[i].str1 = DictGet(m1, report[i].k).orig_str
                  /\ report[i].str2 = DictGet(m2, report[i].k).orig_str
                  /\ report[i].d1 = DictGet(m1, report[i].k).disp
            /\ \A i, j \in 1..Len(report) : i < j => StrLess(report[i].k, report[j].k)
            /\ (DistinctKeys(arg.entries1) /\ DistinctKeys(arg.entries2))
                  => ret.reversed.report = report

\* "zed" is declared before "abc" and is reported after it
C13_Witness ==
    /\ pc = "compared"
    /\ Len(arg.entries1) = 2
    /\ arg.entries1[1].msgid = "Zed"
    /\ arg.entries1[2].msgid = "abc."
    /\ Len(ret.declared.report) = 2
    /\ ret.declared.report[1].k = "abc"
    /\ ret.declared.report[2].k = "zed"
    /\ ret.reversed = ret.declared

----------------------------------------------------------------------------
(* Lint: the issue checks and collect_issues_for_entry.  A check returns    *)
(* its message, or "" where the code returns None.  The messages are spelt  *)
(* without the accents of the source ("Egyenes idezojel").                  *)

\* s.count(p): the occurrences of p in s that do not overlap, from the left
RECURSIVE count(_, _)
count(s, p) ==
    IF Len(s) < Len(p) THEN 0
    ELSE IF startswith(s, p) THEN 1 + count(Drop(s, Len(p)), p)
    ELSE count(Drop(s, 1), p)

\* re.findall(r'<!\[CDATA\[(.*?)\]\]>', s, flags=re.DOTALL)
RECURSIVE CdataParts(_)
CdataParts(s) ==
    LET open == "<![CDATA["
        close == "]]>"
        closes(i) == {j \in (i + Len(open))..(Len(s) - Len(close) + 1) :
                        SubSeq(s, j, j + Len(close) - 1) = close}
        opens == {i \in 1..(Len(s) - Len(open) + 1) :
                    SubSeq(s, i, i + Len(open) - 1) = open /\ closes(i) # {}}
    IN  IF opens = {} THEN <<>>
        ELSE LET i == MinOf(opens)
                 j == MinOf(closes(i))
             IN  <<SubSeq(s, i + Len(open), j - 1)>>
                    \o CdataParts(Drop(s, j + Len(close) - 1))

\* " ".join(parts)
RECURSIVE JoinBlank(_)
JoinBlank(parts) ==
    IF parts = <<>> THEN ""
    ELSE IF Len(parts) = 1 THEN parts[1]
    ELSE parts[1] \o " " \o JoinBlank(Tail(parts))

\* the length of the match of <[^>]+> at the start of s, 0 if none
TagLen(s) ==
    LET gt == {i \in 3..Len(s) : Ch(s, i) = ">"}
    IN  IF startswith(s, "<") /\ Len(s) >= 2 /\ Ch(s, 2) # ">" /\ gt # {} THEN MinOf(gt)
        ELSE 0

\* re.sub(r'<[^>]+>', ' ', s)
RECURSIVE SubTags(_)
SubTags(s) ==
    IF s = "" THEN ""
    ELSE IF TagLen(s) > 0 THEN " " \o SubTags(Drop(s, TagLen(s)))
    ELSE Ch(s, 1) \o SubTags(Drop(s, 1))

\* re.search(r'<[^>]+>', s)
HasTag(s) == \E i \in 1..Len(s) : TagLen(Drop(s, i - 1)) > 0

extract_visible_text(s) ==
    IF s = "" THEN ""
    ELSE CHOOSE r \in {strip(JoinSplit(Nfkc(unescape(SubTags(txt))))) :
                         txt \in {IF parts # <<>> THEN JoinBlank(parts) ELSE s :
                                    parts \in {CdataParts(s)}}} : TRUE

check_cdata_balance(s) ==
    IF s # "" /\ count(s, "<![CDATA[") # count(s, "]]>") THEN "CDATA hiba" ELSE ""

\* the markers in the order they are tried; the backquote, the first marker of
\* the code, cannot be written in a module and is in no text of the model
MarkdownMarkers == << "**", "__", "~~" >>

\* the message for the visible text v
MarkdownMessage(v) ==
    LET odd == {k \in 1..Len(MarkdownMarkers) : count(v, MarkdownMarkers[k]) % 2 # 0}
    IN  IF odd # {} THEN "Markdown hiba: " \o MarkdownMarkers[MinOf(odd)]
        ELSE IF count(v, "*") % 2 # 0 THEN "Markdown hiba: *"
        ELSE ""

check_markdown_balance(s) ==
    IF s = "" \/ Contains(s, "<![CDATA[") \/ HasTag(s) THEN ""
    ELSE CHOOSE r \in {MarkdownMessage(v) : v \in {extract_visible_text(s)}} : TRUE

IsLetter(c) ==
    \E i \in 1..Len(UpperLetters) : c = Ch(UpperLetters, i) \/ c = Ch(LowerLetters, i)

\* [a-zA-Z0-9:-]
IsTagNameCh(c) == IsLetter(c) \/ c \in Digits \/ c \in {":", "-"}

\* the number of white-space characters s starts with
BlankRun(s) == Len(s) - Len(lstrip(s))

\* the match of <\s*(/)?\s*([a-zA-Z][a-zA-Z0-9:-]*)[^>]*> at the start of s:
\* its length (0 if there is none), whether the slash group matched, the name
TagMatch(s) ==
    LET a == Drop(s, 1 + BlankRun(Drop(s, 1)))
        cl == startswith(a, "/")
        b == IF cl THEN Drop(a, 1) ELSE a
        c == Drop(b, BlankRun(b))
        stop == {i \in 1..Len(c) : ~IsTagNameCh(Ch(c, i))}
        n == IF stop = {} THEN Len(c) ELSE MinOf(stop) - 1
        rest == Drop(c, n)
        gt == {i \in 1..Len(rest) : Ch(rest, i) = ">"}
        none == [len |-> 0, cl |-> FALSE, name |-> ""]
    IN  IF ~startswith(s, "<") THEN none
        ELSE IF c = "" \/ ~IsLetter(Ch(c, 1)) THEN none
        ELSE IF gt = {} THEN none
        ELSE [len |-> Len(s) - Len(rest) + MinOf(gt), cl |-> cl, name |-> Take(c, n)]

\* re.findall of the tag pattern: the matches from the left, each a pair of
\* the slash group and the name
RECURSIVE FindTags(_)
FindTags(s) ==
    IF s = "" THEN <<>>
    ELSE CHOOSE r \in {IF m.len > 0
                       THEN <<[cl |-> m.cl, name |-> m.name]>> \o FindTags(Drop(s, m.len))
                       ELSE FindTags(Drop(s, 1)) : m \in {TagMatch(s)}} : TRUE

VoidTags == {"br", "img", "hr", "input", "meta", "link"}

\* ', '.join(names)
RECURSIVE JoinComma(_)
JoinComma(names) ==
    IF names = <<>> THEN ""
    ELSE IF Len(names) = 1 THEN names[1]
    ELSE names[1] \o ", " \o JoinComma(Tail(names))

\* the names of the tags counted, lowered, without the tags that need no
\* closing tag
CountedTags(tags) ==
    SelectSeq([i \in 1..Len(tags) |-> [cl |-> tags[i].cl, name |-> lower(tags[i].name)]],
              LAMBDA t : t.name \notin VoidTags)

\* err: the names, in the order of their first tag, whose opening and closing
\* tags do not cancel
UnbalancedTags(counted) ==
    LET first == {i \in 1..Len(counted) : \A j \in 1..(i - 1) : counted[j].name # counted[i].name}
        cnt(n) == Cardinality({i \in 1..Len(counted) : counted[i].name = n /\ ~counted[i].cl})
                    - Cardinality({i \in 1..Len(counted) : counted[i].name = n /\ counted[i].cl})
    IN  SelectSeq([k \in 1..Cardinality(first) |-> counted[Nth(first, k)].name],
                  LAMBDA n : cnt(n) # 0)

check_html_tag_balance(s) ==
    IF s = "" \/ Contains(s, "<![CDATA[") THEN ""
    ELSE CHOOSE r \in {IF err # <<>> THEN "HTML tag hiba: " \o JoinComma(err) ELSE "" :
                         err \in {UnbalancedTags(counted) :
                                    counted \in {CountedTags(tags) : tags \in {FindTags(s)}}}} : TRUE

check_ellipsis_usage(s) ==
    IF s # "" /\ Contains(extract_visible_text(s), "...") /\ ~Contains(s, "^")
    THEN "ASCII ellipszis (...)" ELSE ""

check_quotes_usage(s) ==
    IF s = "" THEN ""
    ELSE IF \E v \in {extract_visible_text(s)} :
               (Contains(v, DQuote) \/ Contains(v, "'")) /\ ~(Contains(v, "+") \/ Contains(v, "="))
         THEN "Egyenes idezojel"
    ELSE ""

\* the messages of a family of checks on a text, in the order of the checks,
\* each with the label of the text
Issues(lbl, results) ==
    SelectSeq([i \in 1..Len(results) |-> IF results[i] = "" THEN "" ELSE lbl \o ": " \o results[i]],
              LAMBDA m : m # "")

FormatIssues(lbl, txt) ==
    Issues(lbl, <<check_cdata_balance(txt), check_markdown_balance(txt),
                  check_html_tag_balance(txt)>>)

PunctuationIssues(lbl, txt) ==
    Issues(lbl, <<check_ellipsis_usage(txt), check_quotes_usage(txt)>>)

\* a plausible slip: the punctuation checks are run on the source key too
collect_issues_for_entry_punctuation_on_key(msgid, msgstr, checks) ==
    LET texts == << <<"msgid", msgid>>, <<"msgstr", msgstr>> >>
        of == [k \in 1..2 |->
                 IF texts[k][2] = "" THEN <<>>
                 ELSE (IF "format" \in checks
                       THEN FormatIssues(texts[k][1], texts[k][2]) ELSE <<>>)
                      \o (IF "irasjel" \in checks
                          THEN PunctuationIssues(texts[k][1], texts[k][2]) ELSE <<>>)]
    IN  of[1] \o of[2]

\* the loop over (("msgid", msgid), ("msgstr", msgstr))
collect_issues_for_entry(msgid, msgstr, checks) ==
    LET texts == << <<"msgid", msgid>>, <<"msgstr", msgstr>> >>
        of == [k \in 1..2 |->
                 IF texts[k][2] = "" THEN <<>>
                 ELSE (IF "format" \in checks
                       THEN FormatIssues(texts[k][1], texts[k][2]) ELSE <<>>)
                      \o (IF texts[k][1] = "msgstr" /\ "irasjel" \in checks
                          THEN PunctuationIssues(texts[k][1], texts[k][2]) ELSE <<>>)]
    IN  of[1] \o of[2]

\* The texts of an entry handed to the lint: without an issue, with an ASCII
\* ellipsis (alone, next to a typographic one, inside markup), with straight
\* and with typographic quotes, with CDATA markers that balance and that do
\* not, with an odd and an even number of emphasis markers, with tags that
\* balance, that do not, and that need no closing tag.
LintTexts ==
    { "", "Save file", "Wait...", "Wait...^", "<b>Wait...</b>", "say \"x\"", "it's", "+x=",
      "<![CDATA[x]]>", "<![CDATA[x", "a **b", "a **b** *c", "a __b__", "<b>Wait...", "<B>x</b>",
      "x<br>y", "< / i >x", "<a href=\"u\">x</a></p>" }

LintInit ==
    /\ pc = "call"
    /\ arg \in {[msgid |-> k, msgstr |-> v, checks |-> c] :
                  k \in LintTexts, v \in LintTexts, c \in SUBSET {"format", "irasjel"}}
    /\ ret = NoRet

\* collect_issues_for_entry(msgid, msgstr, checks)
CollectIssues ==
    /\ pc = "call"
    /\ pc' = "done"
    /\ ret' = collect_issues_for_entry(arg.msgid, arg.msgstr, arg.checks)
    /\ UNCHANGED arg

LintNext == CollectIssues

SpecLint == LintInit /\ [][LintNext]_vars

\* the message is one of the messages reported
Reported(m) == \E i \in 1..Len(ret) : ret[i] = m

\* the results of the three format checks and of the two punctuation checks
FormatChecks(txt) ==
    {check_cdata_balance(txt), check_markdown_balance(txt), check_html_tag_balance(txt)} \ {""}

PunctuationChecks(txt) == {check_ellipsis_usage(txt), check_quotes_usage(txt)} \ {""}

\* C27 as stated: with both families of checks enabled, the message of every
\* one of the five checks that is triggered on the source key or on the value
\* is reported, with the label of its text.
C27_FiveChecksOnBothTexts ==
    (pc = "done" /\ arg.checks = {"format", "irasjel"}) =>
        /\ \A r \in FormatChecks(arg.msgid) \cup PunctuationChecks(arg.msgid) :
              Reported("msgid: " \o r)
        /\ \A r \in FormatChecks(arg.msgstr) \cup PunctuationChecks(arg.msgstr) :
              Reported("msgstr: " \o r)

\* C27 amended: with both families of checks enabled, the three format checks
\* are applied to the source key and to the value, the two punctuation checks
\* to the value only; the message of every check triggered is reported with
\* the label of its text, and nothing else is reported.
C27_PunctuationOnValueOnly ==
    (pc = "done" /\ arg.checks = {"format", "irasjel"}) =>
        /\ \A r \in FormatChecks(arg.msgid) : Reported("msgid: " \o r)
        /\ \A r \in FormatChecks(arg.msgstr) \cup PunctuationChecks(arg.msgstr) :
              Reported("msgstr: " \o r)
        /\ Len(ret) = Cardinality(FormatChecks(arg.msgid)) + Cardinality(FormatChecks(arg.msgstr))
                        + Cardinality(PunctuationChecks(arg.msgstr))

\* a source key with an ASCII ellipsis inside unbalanced markup and a value
\* with an ASCII ellipsis: the format issue of the key is reported, its
\* ellipsis is not, the ellipsis of the value is
C27_Witness ==
    /\ pc = "done"
    /\ arg.checks = {"format", "irasjel"}
    /\ arg.msgstr = "Wait..."
    /\ check_ellipsis_usage(arg.msgid) # ""
    /\ check_html_tag_balance(arg.msgid) # ""
    /\ ret = << "msgid: HTML tag hiba: b", "msgstr: ASCII ellipszis (...)" >>

=============================================================================
